---------------------------- MODULE Spec2Model ----------------------------
(***************************************************************************)
(* State-machine model of src/nba_scraper/migration_system.py:             *)
(* MigrationExecutor.execute_migration (count, backup, batch generation,   *)
(* sequential and thread-pool batch processing, status derivation,         *)
(* logging) and MigrationExecutor.rollback_migration, over a small         *)
(* relational store (one live table, its backup table, the migration log); *)
(* and of src/nba_scraper/dynamic_schema.py:                               *)
(* SchemaMigrationManager.apply_schema_changes, SchemaFeedbackSystem       *)
(* .handle_schema_changes and DynamicColumnSystem.process_scraped_data,    *)
(* over a table's column set and the schema_changes audit table, and       *)
(* SchemaChangeDetector (type inference over sampled values, and           *)
(* detect_changes_from_scraped_data against the reflected columns).        *)
(***************************************************************************)
EXTENDS Integers, Sequences, FiniteSets, TLC

\* ------------------------------------------------------------------ bounds
MaxRows      == 2   \* rows of the live table before the run
MaxBatchSize == 2   \* MigrationExecutor.batch_size ranges over 1..MaxBatchSize
MaxWorkers   == 2   \* MigrationExecutor.max_workers ranges over 1..MaxWorkers
MaxFaults    == 1   \* collaborator failures (database errors) injected per behaviour
MaxTotal     == 12  \* total_records handed to _generate_batches in SpecBatches
MaxGenBatch  == 5   \* batch_size handed to _generate_batches in SpecBatches
MaxChanges   == 2   \* changes in the list handed to apply_schema_changes
MaxSamples   == 3   \* sampled values of one column
MaxRecords   == 2   \* records handed to detect
MaxCalls     == 3   \* detect and apply calls on one detector

\* --------------------------------------------------------------- constants
DefaultBatchSize == 1000  \* batch_size: int = 1000 (line 102)
RunId     == 1      \* the migration_id of the run (uuid4 at line 127)
UnknownId == RunId + 1  \* a migration_id no run ever had

VARIABLES
    \* MigrationExecutor fields (__init__)
    batch_size, max_workers, enable_rollback,
    \* arguments of the execute_migration call
    migration_func, filter_conditions, dry_run, parallel,
    \* environment, fixed but observed only on first use ("unknown" until then)
    importable,        \* does `from database_schema import DataMigration` succeed
    ddl_transactional, \* does session.rollback() undo DDL (PostgreSQL: yes; SQLite
                       \* through pysqlite and MySQL: no)
    has_table,         \* do fetched records carry __table__ (ORM objects) or not (Row)
    \* the database
    table, tableExists,       \* the live table: its rows in primary-key order
    backup, backupExists,     \* <table>_backup_<id>, committed
    backupPending,            \* backup created in execute's session, not yet committed
    migration_log,            \* DataMigration rows
    preTable,                 \* the live table's rows when execute_migration was called
    \* the run
    pc, result, batches, batch,
    \* rollback_migration
    rb_id, rb_return, rb_statements, \* last call: argument, result, statements issued
    \* injected collaborator failures so far
    faults,
    \* _generate_batches applied as a pure function (SpecBatches)
    gen_total, gen_batch_size, gen_out,
    \* dynamic_schema.py: which call is made, and its inputs
    entry,             \* "apply": apply_schema_changes; "process": process_scraped_data
    dialect, auto_migrate, pause_on_changes, changes,
    \* the table's columns, those whose type was changed, the schema_changes rows
    db_columns, db_modified, db_archive,
    \* the same, for what the open session has not committed, and whether its
    \* transaction is aborted
    tx_columns, tx_modified, tx_archive, tx_aborted,
    \* apply_schema_changes: position, loop index, results dictionary, statements
    \* executed, changes whose statement met a database failure, and whether
    \* _record_schema_changes swallowed an exception
    ap_pc, ap_i, results, ddl_log, ddl_faulted, archive_raised,
    \* process_scraped_data: position, results dictionary and the components
    \* called so far, in call order
    pr_pc, pr_results, pr_calls,
    \* handle_schema_changes called on its own: the list it is given, the
    \* system's pause_on_changes, the behaviour of the configured
    \* notification_callback, position, number of callback invocations so
    \* far and the value returned
    fb_changes, fb_pause, notification_callback, fb_pc, fb_notified, fb_return,
    \* _analyze_data_structure on one column: the sampled values in record
    \* order, the position, and the column's descriptor
    samples, inf_pc, descriptor,
    \* SchemaChangeDetector on one table: the records handed to detect, the
    \* live table (existence and column -> reflected type), the inspector's
    \* cached reflection, the position, and the lists returned by the detect
    \* calls so far, in call order
    scraped_data, live, info_cache, det_pc, detected

executorVars == <<batch_size, max_workers, enable_rollback>>
callVars     == <<migration_func, filter_conditions, dry_run, parallel>>
envVars      == <<importable, ddl_transactional, has_table>>
dbVars       == <<table, tableExists, backup, backupExists, backupPending,
                  migration_log, preTable>>
runVars      == <<pc, result, batches, batch>>
rbVars       == <<rb_id, rb_return, rb_statements>>
genVars      == <<gen_total, gen_batch_size, gen_out>>
schemaInputVars == <<entry, dialect, auto_migrate, pause_on_changes, changes>>
schemaDbVars    == <<db_columns, db_modified, db_archive>>
schemaTxVars    == <<tx_columns, tx_modified, tx_archive, tx_aborted>>
applyVars       == <<ap_pc, ap_i, results, ddl_log, ddl_faulted, archive_raised>>
processVars     == <<pr_pc, pr_results, pr_calls>>
feedbackVars    == <<fb_changes, fb_pause, notification_callback, fb_pc,
                     fb_notified, fb_return>>
inferVars       == <<samples, inf_pc, descriptor>>
detectVars      == <<scraped_data, live, info_cache, det_pc, detected>>
detectorVars    == <<feedbackVars, inferVars, detectVars>>
managerVars     == <<schemaInputVars, schemaDbVars, schemaTxVars, applyVars, processVars>>
schemaVars      == <<managerVars, detectorVars>>
\* everything of migration_system.py but the failure budget
parkedVars      == <<executorVars, callVars, envVars, dbVars, runVars, rbVars, genVars,
                     detectorVars>>
vars == <<executorVars, callVars, envVars, dbVars, runVars, rbVars, faults, genVars,
          schemaVars>>

Min(a, b) == IF a < b THEN a ELSE b

\* ---------------------------------------------------------------- records
\* The live table before the run: rows with primary key id and two data
\* columns, flag and val.
InitialTables ==
    UNION { { [i \in 1..n |-> [id |-> i, flag |-> f[i], val |-> 0]] :
                f \in [1..n -> {0, 1}] } : n \in 0..MaxRows }

\* filter_conditions: None, or a dict column -> value (lines 218-230, 379-391).
NoFilter == {}
Filters  == { NoFilter, {<<"flag", 0>>} }

Matches(row, fc) == \A c \in fc : row[c[1]] = c[2]

RECURSIVE SelectRows(_, _)
SelectRows(rows, fc) ==
    IF rows = <<>> THEN <<>>
    ELSE IF Matches(Head(rows), fc)
         THEN <<Head(rows)>> \o SelectRows(Tail(rows), fc)
         ELSE SelectRows(Tail(rows), fc)

\* MigrationFunction: the transform and its target_columns.
MigrationFunctions ==
    { [function |-> "mark_val",      target_columns |-> {"val"}],
      [function |-> "mark_flag",     target_columns |-> {"flag"}],
      [function |-> "raise_on_flag", target_columns |-> {"val"}] }

\* migration_func.function(record_dict): raises, or returns the updated dict.
TransformRaises(fn, rd) == fn = "raise_on_flag" /\ rd.flag = 1

Transform(fn, rd) ==
    CASE fn = "mark_val"      -> \* sets val; the dict it returns also has flag
                                 \* changed and a key extra added
            [c \in DOMAIN rd \cup {"extra"} |->
                IF c \in {"val", "flag", "extra"} THEN 1 ELSE rd[c]]
      [] fn = "mark_flag"     -> [rd EXCEPT !.flag = 1]
      [] fn = "raise_on_flag" -> [rd EXCEPT !.val = 1]

\* ------------------------------------------------------- pure operations
\* _get_record_count: SELECT COUNT(*) FROM table [WHERE filter].
GetRecordCount(rows, fc) == Len(SelectRows(rows, fc))

\* NumBatches rounding down instead of up: total_records // batch_size.
NumBatchesFloor(total_records, bs) == total_records \div bs

\* _generate_batches: one parameter dict per batch, in batch_num order.
NumBatches(total_records, bs) == (total_records + bs - 1) \div bs

GenerateBatches(total_records, bs) ==
    [k \in 1..NumBatches(total_records, bs) |->
        [batch_num     |-> k - 1,
         offset        |-> (k - 1) * bs,
         limit         |-> bs,
         total_batches |-> NumBatches(total_records, bs)]]

\* _fetch_batch_records: SELECT * FROM table [WHERE filter] LIMIT l OFFSET o,
\* evaluated against the rows committed at the time of the fetch.
FetchBatchRecords(rows, fc, bp) ==
    LET matching == SelectRows(rows, fc)
    IN  SubSeq(matching, bp.offset + 1, Min(bp.offset + bp.limit, Len(matching)))

\* UpdateColumns writing every key of the updated dict, target column or not.
UpdateColumnsAllKeys(updated_dict, mf) == DOMAIN updated_dict

\* _update_record: the UPDATE it issues for one record (only target columns
\* that are keys of the updated dict), or no statement when there is none.
UpdateColumns(updated_dict, mf) ==
    { c \in mf.target_columns : c \in DOMAIN updated_dict }

UpdateRecord(record, updated_dict, mf) ==
    IF UpdateColumns(updated_dict, mf) # {} /\ "id" \in DOMAIN record
    THEN << [record_id |-> record.id,
             values    |-> [c \in UpdateColumns(updated_dict, mf) |-> updated_dict[c]]] >>
    ELSE << >>

\* record.__table__.name (line 427) raises AttributeError on a record that
\* carries no __table__; it is evaluated only when there is something to update.
UpdateRaises(record, updated_dict, mf, hasTable) ==
    /\ UpdateColumns(updated_dict, mf) # {}
    /\ "id" \in DOMAIN record
    /\ hasTable = "no"

\* ProcessRecords with the `if not dry_run` of line 340 dropped: the UPDATE is
\* issued in a dry run too.
RECURSIVE ProcessRecordsDryWrites(_, _, _, _, _)
ProcessRecordsDryWrites(records, mf, dry, hasTable, acc) ==
    IF records = <<>> THEN acc
    ELSE
      LET record == Head(records)
          raised == \/ TransformRaises(mf.function, record)
                    \/ UpdateRaises(record, Transform(mf.function, record), mf, hasTable)
          next ==
            IF raised
            THEN [acc EXCEPT !.records_failed = @ + 1,
                             !.failed_record_ids = Append(@, record.id)]
            ELSE [acc EXCEPT !.records_processed = @ + 1,
                             !.updates = @ \o UpdateRecord(record,
                                                Transform(mf.function, record), mf)]
      IN ProcessRecordsDryWrites(Tail(records), mf, dry, hasTable, next)

\* ProcessRecords with the row-level `except` leaving the loop: the records
\* after the first one that raises are not attempted.
RECURSIVE ProcessRecordsStopsAtFailure(_, _, _, _, _)
ProcessRecordsStopsAtFailure(records, mf, dry, hasTable, acc) ==
    IF records = <<>> THEN acc
    ELSE
      LET record == Head(records)
          raised == \/ TransformRaises(mf.function, record)
                    \/ /\ ~dry
                       /\ UpdateRaises(record, Transform(mf.function, record), mf, hasTable)
      IN IF raised
         THEN [acc EXCEPT !.records_failed = @ + 1,
                          !.failed_record_ids = Append(@, record.id)]
         ELSE ProcessRecordsStopsAtFailure(Tail(records), mf, dry, hasTable,
                [acc EXCEPT !.records_processed = @ + 1,
                            !.updates = IF dry THEN @
                                        ELSE @ \o UpdateRecord(record,
                                                    Transform(mf.function, record), mf)])

\* The row loop of _process_batch (lines 331-348), folded over the fetched
\* records: counters, failed ids and the UPDATEs pending in the batch session.
RECURSIVE ProcessRecords(_, _, _, _, _)
ProcessRecords(records, mf, dry, hasTable, acc) ==
    IF records = <<>> THEN acc
    ELSE
      LET record == Head(records)
          raised == \/ TransformRaises(mf.function, record)
                    \/ /\ ~dry
                       /\ UpdateRaises(record, Transform(mf.function, record), mf, hasTable)
          next ==
            IF raised
            THEN [acc EXCEPT !.records_failed = @ + 1,
                             !.failed_record_ids = Append(@, record.id)]
            ELSE [acc EXCEPT !.records_processed = @ + 1,
                             !.updates = IF dry THEN @
                                         ELSE @ \o UpdateRecord(record,
                                                     Transform(mf.function, record), mf)]
      IN ProcessRecords(Tail(records), mf, dry, hasTable, next)

EmptyLoop == [records_processed |-> 0, records_failed |-> 0,
              failed_record_ids |-> <<>>, updates |-> <<>>]

\* Does the row loop reach record.__table__ for some record of the batch?
ReachesTable(records, mf, dry) ==
    /\ ~dry
    /\ \E i \in 1..Len(records) :
          /\ ~TransformRaises(mf.function, records[i])
          /\ UpdateColumns(Transform(mf.function, records[i]), mf) # {}

\* session.commit() of a batch: every pending UPDATE ... WHERE id = :record_id.
RECURSIVE ApplyUpdates(_, _)
ApplyUpdates(rows, updates) ==
    IF updates = <<>> THEN rows
    ELSE
      LET u == Head(updates)
          written == [i \in DOMAIN rows |->
                        IF rows[i].id = u.record_id
                        THEN [c \in DOMAIN rows[i] |->
                                IF c \in DOMAIN u.values THEN u.values[c] ELSE rows[i][c]]
                        ELSE rows[i]]
      IN ApplyUpdates(written, Tail(updates))

\* add_batch_result with the update of records_failed lost.
AddBatchResultFailedLost(res, br) ==
    [res EXCEPT !.batch_results     = Append(@, br),
                !.records_processed = @ + br.records_processed,
                !.batches_completed = IF br.status = "completed" THEN @ + 1 ELSE @,
                !.batches_failed    = IF br.status = "failed" THEN @ + 1 ELSE @]

\* MigrationResult.add_batch_result.
AddBatchResult(res, br) ==
    [res EXCEPT !.batch_results     = Append(@, br),
                !.records_processed = @ + br.records_processed,
                !.records_failed    = @ + br.records_failed,
                !.batches_completed = IF br.status = "completed" THEN @ + 1 ELSE @,
                !.batches_failed    = IF br.status = "failed" THEN @ + 1 ELSE @]

\* "Determine final status" (lines 180-186).
FinalStatus(res) ==
    IF res.records_failed = 0 THEN "completed"
    ELSE IF res.records_processed > 0 THEN "partial"
    ELSE "failed"

\* BatchResult of a batch, as handed to add_batch_result.
BatchResultOf(b) ==
    [batch_id          |-> b.batch_id,
     status            |-> b.status,
     records_processed |-> b.records_processed,
     records_failed    |-> b.records_failed,
     failed_record_ids |-> b.failed_record_ids]

\* The state of a submitted batch before its worker starts it.
QueuedBatch(bp) ==
    [pc |-> "queued", batch_id |-> bp.batch_num, status |-> "pending",
     records |-> <<>>, updates |-> <<>>,
     records_processed |-> 0, records_failed |-> 0, failed_record_ids |-> <<>>]

NoResult ==
    [status |-> "none", total_records |-> 0, records_processed |-> 0,
     records_failed |-> 0, batches_completed |-> 0, batches_failed |-> 0,
     rollback_available |-> FALSE, error |-> FALSE, batch_results |-> <<>>]

\* ======================================================= dynamic_schema.py
\* SchemaMigrationManager.apply_schema_changes, SchemaFeedbackSystem
\* .handle_schema_changes and DynamicColumnSystem.process_scraped_data, over
\* one table's column set and the schema_changes audit table.

ColumnNames == {"pts", "reb", "ast"}
Operations  == {"add", "modify", "remove", "rename"}  \* "rename": an unknown operation
Dialects    == {"postgresql", "sqlite", "mysql"}       \* str(engine.dialect), lines 298-304

\* A change dictionary, reduced to the keys the dispatch reads.
Change(op, c) == [operation |-> op, column_name |-> c]

\* Change lists of at most MaxChanges changes on pairwise different columns.
ChangeLists ==
    UNION { { s \in [1..n -> { Change(op, c) : op \in Operations, c \in ColumnNames }] :
                \A i, j \in 1..n : i # j => s[i].column_name # s[j].column_name } :
            n \in 0..MaxChanges }

\* What detect_changes_from_scraped_data can hand to process_scraped_data:
\* add changes first (lines 55-63), then modify changes (lines 66-79).
DetectedLists ==
    { s \in ChangeLists :
        /\ \A i \in DOMAIN s : s[i].operation \in {"add", "modify"}
        /\ \A i, j \in DOMAIN s :
              (s[i].operation = "modify" /\ s[j].operation = "add") => j < i }

\* The branch of the dispatch of lines 256-268 a change takes.
DispatchRemoveAsModify(op) ==
    CASE op = "add"    -> "add_column"
      [] op = "modify" -> "modify_column"
      [] op = "remove" -> "modify_column"
      [] OTHER         -> "skip"

Dispatch(op) ==
    CASE op = "add"    -> "add_column"
      [] op = "modify" -> "modify_column"
      [] op = "remove" -> "skip"
      [] OTHER         -> "skip"

\* _add_column always executes a statement; _modify_column returns without one
\* on sqlite (lines 320-322).
IssuesDDL(branch, d) ==
    \/ branch = "add_column"
    \/ branch = "modify_column" /\ d # "sqlite"

\* The statement text by dialect (lines 299-304, 319-324).
Statement(branch, d) ==
    IF branch = "add_column" THEN "ADD COLUMN"
    ELSE IF d = "postgresql" THEN "ALTER COLUMN TYPE" ELSE "MODIFY COLUMN"

\* PostgreSQL runs DDL inside the session's transaction; pysqlite and MySQL
\* make each DDL statement durable when it returns.
TransactionalDDL(d) == d = "postgresql"

\* The statement is rejected by the database whatever else happens: the column
\* to add exists already, or the column to modify does not exist.
Rejected(branch, c, cols) ==
    IF branch = "add_column" THEN c \in cols ELSE c \notin cols

\* handle_schema_changes that never pauses.
HandleSchemaChangesNeverPauses(chs, pause) == TRUE

\* The value SchemaFeedbackSystem.handle_schema_changes returns; the
\* callback's exceptions are swallowed (lines 381-385).
HandleSchemaChanges(chs, pause) ==
    IF chs = <<>> THEN TRUE
    ELSE IF pause THEN FALSE
    ELSE TRUE

\* Lines 453-455 without the test of migration_results['failed'].
ContinueAfterMigrationIgnoringFailed(cont, failedChanges) == cont

\* continue_scraping after apply_schema_changes returned (lines 453-455).
ContinueAfterMigration(cont, failedChanges) ==
    IF failedChanges # <<>> THEN FALSE ELSE cont

NoMigrationResults == [applied |-> <<>>, failed |-> <<>>, skipped |-> <<>>]

NoProcessResults ==
    [changes_detected |-> 0, migration_applied |-> FALSE,
     continue_scraping |-> TRUE, has_migration_results |-> FALSE]

\* --------------------------------------------- SchemaFeedbackSystem alone
\* notification_callback: None, a callable that returns, or a callable that
\* raises an Exception (lines 356, 381-385).
Callbacks == {"none", "returns", "raises"}

FeedbackIdle ==
    /\ fb_changes = <<>>
    /\ fb_pause = TRUE
    /\ notification_callback = "none"
    /\ fb_pc = "idle"
    /\ fb_notified = 0
    /\ fb_return = TRUE

\* ------------------------------------------------- SchemaChangeDetector
Max(a, b) == IF a > b THEN a ELSE b

\* _analyze_data_structure looks at the first 100 records (line 103).
SampleLimit == 100

\* A scraped value: its Python type, for a str the shape the regular
\* expressions of lines 181-194 can tell apart, and len(value).
PyNone  == [py |-> "NoneType", shape |-> "-", len |-> 0]
PyBool  == [py |-> "bool",     shape |-> "-", len |-> 0]
PyInt   == [py |-> "int",      shape |-> "-", len |-> 0]
PyFloat == [py |-> "float",    shape |-> "-", len |-> 0]
PyList  == [py |-> "list",     shape |-> "-", len |-> 0]
PyStr(shape, n) == [py |-> "str", shape |-> shape, len |-> n]

\* "2024-01-31", "01/31/2024", "2024-01-31 19:30:00", "N/A", "", and texts
\* of 60 and 300 characters.
IsoDate     == PyStr("YYYY-MM-DD", 10)
SlashDate   == PyStr("MM/DD/YYYY", 10)
IsoDateTime == PyStr("YYYY-MM-DD HH:MM:SS", 19)
ShortText   == PyStr("text", 3)
EmptyString == PyStr("text", 0)
MediumText  == PyStr("text", 60)
LongText    == PyStr("text", 300)

SampleValues ==
    { PyNone, PyBool, PyInt, PyFloat, PyList, IsoDate, SlashDate, IsoDateTime,
      ShortText, EmptyString, MediumText, LongText }

\* _looks_like_date: YYYY-MM-DD, MM/DD/YYYY or M/D/YYYY.
LooksLikeDate(value) == value.shape \in {"YYYY-MM-DD", "MM/DD/YYYY"}

\* _looks_like_datetime: YYYY-MM-DD followed by a time, with a blank or a T.
LooksLikeDatetime(value) == value.shape = "YYYY-MM-DD HH:MM:SS"

\* _infer_column_type (bool is tested before int).
InferColumnType(value) ==
    CASE value.py = "bool"  -> "boolean"
      [] value.py = "int"   -> "integer"
      [] value.py = "float" -> "float"
      [] value.py = "str"   -> IF LooksLikeDate(value) THEN "date"
                               ELSE IF LooksLikeDatetime(value) THEN "datetime"
                               ELSE "string"
      [] OTHER              -> "string"

type_hierarchy ==
    [boolean |-> 0, integer |-> 1, float |-> 2, date |-> 3, datetime |-> 4,
     string |-> 5]

\* The later of the two types whatever their ranks.
GetMostPermissiveTypeLast(type1, type2) == type2

\* _get_most_permissive_type.
GetMostPermissiveType(type1, type2) ==
    IF type_hierarchy[type1] > type_hierarchy[type2] THEN type1 ELSE type2

\* columns[key] when the key is first seen (lines 107-112); "None" is None.
NewColumnInfo == [type |-> "None", nullable |-> FALSE, max_length |-> 0]

\* One value without widening: the first type seen is kept.
AnalyzeValueFirstTypeWins(col_info, value) ==
    IF value.py = "NoneType" THEN [col_info EXCEPT !.nullable = TRUE]
    ELSE [col_info EXCEPT
            !.type = IF @ = "None" THEN InferColumnType(value) ELSE @,
            !.max_length = IF value.py = "str" THEN Max(@, value.len) ELSE @]

\* One value of a column in the sampling loop (lines 114-133).
AnalyzeValue(col_info, value) ==
    IF value.py = "NoneType" THEN [col_info EXCEPT !.nullable = TRUE]
    ELSE LET inferred_type == InferColumnType(value)
         IN [col_info EXCEPT
               !.type = IF @ = "None" THEN inferred_type
                        ELSE IF @ # inferred_type
                             THEN GetMostPermissiveType(@, inferred_type)
                             ELSE @,
               !.max_length = IF value.py = "str" THEN Max(@, value.len) ELSE @]

RECURSIVE AnalyzeValues(_, _)
AnalyzeValues(col_info, values) ==
    IF values = <<>> THEN col_info
    ELSE AnalyzeValues(AnalyzeValue(col_info, Head(values)), Tail(values))

\* Finalize column definitions (lines 136-157).
SqlType(col_info) ==
    CASE col_info.type = "string" ->
            IF col_info.max_length <= 50 THEN "VARCHAR(100)"
            ELSE IF col_info.max_length <= 255 THEN "VARCHAR(500)"
            ELSE "TEXT"
      [] col_info.type = "integer"  -> "INTEGER"
      [] col_info.type = "float"    -> "FLOAT"
      [] col_info.type = "boolean"  -> "BOOLEAN"
      [] col_info.type = "date"     -> "DATE"
      [] col_info.type = "datetime" -> "TIMESTAMP"
      [] OTHER                      -> "TEXT"

\* The descriptor of a column whose sampled values are `values`.
AnalyzeColumn(values) ==
    LET col_info == AnalyzeValues(NewColumnInfo, values)
    IN [type |-> col_info.type, nullable |-> col_info.nullable,
        max_length |-> col_info.max_length, sql_type |-> SqlType(col_info)]

NoDescriptor ==
    [type |-> "None", nullable |-> FALSE, max_length |-> 0, sql_type |-> "TEXT"]

\* No column is being analysed: there is no descriptor.
InferIdle == samples = <<>> /\ inf_pc = "idle" /\ descriptor = <<>>

\* The table the detector looks at has at most these columns; a record is a
\* dict over some of them, its keys in this order.
DetectColumns == {"name", "pts"}
KeyOrder      == <<"name", "pts">>

ValuesOf(c) ==
    IF c = "name" THEN {PyStr("text", 1)}
    ELSE {PyNone, PyInt, PyFloat, ShortText, EmptyString, IsoDateTime}

ScrapedRecords ==
    { r \in UNION { [K -> SampleValues \cup {PyStr("text", 1)}] :
                       K \in SUBSET DetectColumns } :
        \A c \in DOMAIN r : r[c] \in ValuesOf(c) }

\* str(column['type']) of a reflected column, "absent" for no such column.
LiveTypes ==
    {"INTEGER", "FLOAT", "VARCHAR", "VARCHAR(100)", "VARCHAR(500)", "TEXT",
     "DATE", "TIMESTAMP", "BOOLEAN"}

NoColumns == [c \in DetectColumns |-> "absent"]

LiveTables ==
    { [exists |-> FALSE, columns |-> NoColumns] } \cup
    { [exists |-> TRUE, columns |-> cols] :
        cols \in { f \in [DetectColumns -> LiveTypes \cup {"absent"}] :
                     f["name"] \in {"absent", "VARCHAR(100)"} } }

NoCache == [cached |-> FALSE, columns |-> NoColumns]

\* No detector has been made: there is no table and no inspector.
DetectIdle ==
    /\ scraped_data = <<>>
    /\ live = <<>>
    /\ info_cache = <<>>
    /\ det_pc = "idle"
    /\ detected = <<>>

\* Inspector.get_columns raises for a table that does not exist; a result it
\* returned stays in the inspector's info_cache (the inspector is made once,
\* line 28), so later calls return the cached list.
GetColumnsRaises(cache, lv) == ~cache.cached /\ ~lv.exists

\* _get_table_columns (lines 83-96): the reflected columns, {} when the
\* inspection raises.
GetTableColumns(cache, lv) ==
    IF cache.cached THEN cache.columns
    ELSE IF GetColumnsRaises(cache, lv) THEN NoColumns
    ELSE lv.columns

CacheAfterGetColumns(cache, lv) ==
    IF cache.cached \/ GetColumnsRaises(cache, lv) THEN cache
    ELSE [cached |-> TRUE, columns |-> lv.columns]

\* data[:sample_size] (lines 103-105).
Sampled(data) == SubSeq(data, 1, Min(SampleLimit, Len(data)))

\* The values of column c in the records that have the key, in record order.
RECURSIVE ColumnValues(_, _)
ColumnValues(data, c) ==
    IF data = <<>> THEN <<>>
    ELSE (IF c \in DOMAIN Head(data) THEN <<Head(data)[c]>> ELSE <<>>)
           \o ColumnValues(Tail(data), c)

RecordKeys(record) == SelectSeq(KeyOrder, LAMBDA c : c \in DOMAIN record)

\* The keys of the dict `columns`, in insertion order.
RECURSIVE RequiredOrder(_, _)
RequiredOrder(seen, data) ==
    IF data = <<>> THEN seen
    ELSE RequiredOrder(
             seen \o SelectSeq(RecordKeys(Head(data)),
                               LAMBDA c : \A i \in DOMAIN seen : seen[i] # c),
             Tail(data))

\* _analyze_data_structure: column -> descriptor.
AnalyzeDataStructure(data) ==
    [c \in DetectColumns |-> AnalyzeColumn(ColumnValues(Sampled(data), c))]

\* str.upper() on the type names that reach _should_upgrade_column_type.
Upper(s) ==
    CASE s = "string"   -> "STRING"
      [] s = "integer"  -> "INTEGER"
      [] s = "float"    -> "FLOAT"
      [] s = "boolean"  -> "BOOLEAN"
      [] s = "date"     -> "DATE"
      [] s = "datetime" -> "DATETIME"
      [] OTHER          -> s

\* upgrades.get(existing_upper, []) (lines 215-226).
Upgrades(existing_upper) ==
    CASE existing_upper = "INTEGER" -> {"FLOAT", "TEXT"}
      [] existing_upper = "VARCHAR" -> {"TEXT"}
      [] existing_upper = "FLOAT"   -> {"TEXT"}
      [] existing_upper = "DATE"    -> {"TIMESTAMP", "TEXT"}
      [] existing_upper = "BOOLEAN" -> {"TEXT"}
      [] OTHER                      -> {}

\* _should_upgrade_column_type for a required type that is a string.
ShouldUpgradeColumnType(existing_type, required_type) ==
    Upper(required_type) \in Upgrades(Upper(existing_type))

AddChange(c, col_info) ==
    [operation |-> "add", column_name |-> c, old_type |-> "absent",
     new_definition |-> col_info]

ModifyChange(c, existing_type, col_info) ==
    [operation |-> "modify", column_name |-> c, old_type |-> existing_type,
     new_definition |-> col_info]

\* The first loop of detect (lines 54-63).
AddChanges(existing_columns, required_columns, order) ==
    LET absent == SelectSeq(order, LAMBDA c : existing_columns[c] = "absent")
    IN [i \in 1..Len(absent) |-> AddChange(absent[i], required_columns[absent[i]])]

\* The second loop raises AttributeError at required_type.upper() when a
\* column of the table has only None samples (col_info['type'] is None).
ModifyRaises(existing_columns, required_columns, order) ==
    \E i \in DOMAIN order : /\ existing_columns[order[i]] # "absent"
                            /\ required_columns[order[i]].type = "None"

\* The second loop of detect (lines 66-79), when it does not raise.
ModifyChanges(existing_columns, required_columns, order) ==
    LET upgraded == SelectSeq(order, LAMBDA c :
                        /\ existing_columns[c] # "absent"
                        /\ ShouldUpgradeColumnType(existing_columns[c],
                                                   required_columns[c].type))
    IN [i \in 1..Len(upgraded) |->
           ModifyChange(upgraded[i], existing_columns[upgraded[i]],
                        required_columns[upgraded[i]])]

\* detect_changes_from_scraped_data given the result of _get_table_columns:
\* the list returned, or the exception that leaves it.
DetectChanges(existing_columns, data) ==
    LET required_columns == AnalyzeDataStructure(data)
        order            == RequiredOrder(<<>>, Sampled(data))
    IN IF ModifyRaises(existing_columns, required_columns, order)
       THEN [call |-> "detect", raised |-> TRUE, changes |-> <<>>]
       ELSE [call |-> "detect", raised |-> FALSE,
             changes |-> AddChanges(existing_columns, required_columns, order)
                         \o ModifyChanges(existing_columns, required_columns, order)]

\* No call on the feedback system or the detector alone is under way.
DetectorIdle == FeedbackIdle /\ InferIdle /\ DetectIdle

\* No apply_schema_changes or process_scraped_data call is under way.
ManagerIdle ==
    /\ entry = "none"
    /\ dialect = "sqlite"
    /\ auto_migrate = FALSE
    /\ pause_on_changes = TRUE
    /\ changes = <<>>
    /\ db_columns = {}
    /\ db_modified = {}
    /\ db_archive = {}
    /\ tx_columns = {}
    /\ tx_modified = {}
    /\ tx_archive = {}
    /\ tx_aborted = FALSE
    /\ ap_pc = "idle"
    /\ ap_i = 1
    /\ results = NoMigrationResults
    /\ ddl_log = <<>>
    /\ ddl_faulted = {}
    /\ archive_raised = FALSE
    /\ pr_pc = "idle"
    /\ pr_results = NoProcessResults
    /\ pr_calls = <<>>

\* No call of dynamic_schema.py is under way (Spec, SpecBatches).
SchemaIdle == ManagerIdle /\ DetectorIdle

\* ------------------------------------------------------------------ Init
MainInit ==
    /\ batch_size \in 1..MaxBatchSize
    /\ max_workers \in 1..MaxWorkers
    /\ enable_rollback \in BOOLEAN
    /\ migration_func \in MigrationFunctions
    /\ filter_conditions \in Filters
    /\ dry_run \in BOOLEAN
    /\ parallel \in BOOLEAN
    /\ importable = "unknown"
    /\ ddl_transactional = "unknown"
    /\ has_table = "unknown"
    /\ table \in InitialTables
    /\ tableExists = TRUE
    /\ backup = <<>>
    /\ backupExists = FALSE
    /\ backupPending = FALSE
    /\ migration_log = {}
    /\ preTable = table
    /\ pc = "start"
    /\ result = NoResult
    /\ batches = <<>>
    /\ batch = <<>>
    /\ rb_id = 0
    /\ rb_return = FALSE
    /\ rb_statements = <<>>
    /\ faults = 0

GenIdle == gen_total = 0 /\ gen_batch_size = 0 /\ gen_out = <<>>

Init == MainInit /\ GenIdle /\ SchemaIdle

\* The executor left alone while _generate_batches is applied on its own.
MainParked ==
    /\ batch_size = 1
    /\ max_workers = 1
    /\ enable_rollback = FALSE
    /\ migration_func = [function |-> "mark_val", target_columns |-> {"val"}]
    /\ filter_conditions = NoFilter
    /\ dry_run = TRUE
    /\ parallel = FALSE
    /\ importable = "unknown"
    /\ ddl_transactional = "unknown"
    /\ has_table = "unknown"
    /\ table = <<>>
    /\ tableExists = TRUE
    /\ backup = <<>>
    /\ backupExists = FALSE
    /\ backupPending = FALSE
    /\ migration_log = {}
    /\ preTable = <<>>
    /\ pc = "start"
    /\ result = NoResult
    /\ batches = <<>>
    /\ batch = <<>>
    /\ rb_id = 0
    /\ rb_return = FALSE
    /\ rb_statements = <<>>
    /\ faults = 0

\* The inputs of _generate_batches: every pair within the bounds, and the
\* default batch size with 2500 records.
GenInputs ==
    ((1..MaxTotal) \X (1..MaxGenBatch)) \cup {<<2500, DefaultBatchSize>>}

InitBatches ==
    /\ MainParked
    /\ \E in \in GenInputs : gen_total = in[1] /\ gen_batch_size = in[2]
    /\ gen_out = <<>>
    /\ SchemaIdle

\* A collaborator (the database, the session factory) may fail while the
\* budget of injected failures lasts.
CanFail == faults < MaxFaults

\* RunFails with the status assignment of line 197 lost.
RunFailsStillRunning ==
    /\ result' = [result EXCEPT !.error = TRUE]
    /\ backupPending' = FALSE
    /\ pc' = "returned"

\* RunFails with the error message of line 198 lost.
RunFailsErrorLost ==
    /\ result' = [result EXCEPT !.status = "failed"]
    /\ backupPending' = FALSE
    /\ pc' = "returned"

\* The `except Exception` of execute_migration (lines 196-200), after the
\* `finally: session.close()` dropped what the session had not committed.
RunFails ==
    /\ result' = [result EXCEPT !.status = "failed", !.error = TRUE]
    /\ backupPending' = FALSE
    /\ pc' = "returned"

\* The environment's answer to a question first asked now: either answer if it
\* was never observed, the observed one afterwards.
Observe(known) == IF known = "unknown" THEN {"yes", "no"} ELSE {known}

\* ------------------------------------------------ execute_migration steps
\* Lines 127-139: the MigrationResult is created and registered.
ExecStart ==
    /\ pc = "start"
    /\ result' = [NoResult EXCEPT !.status = "running",
                                  !.rollback_available = enable_rollback /\ ~dry_run]
    /\ pc' = "count"
    /\ UNCHANGED <<executorVars, callVars, envVars, dbVars, batches, batch,
                   rbVars, faults, genVars, schemaVars>>

\* ExecCount without the early return of lines 150-153: a run over zero
\* records goes on to the backup step.
ExecCountNoEarlyReturn ==
    /\ pc = "count"
    /\ \/ /\ CanFail
          /\ faults' = faults + 1
          /\ RunFails
       \/ /\ faults' = faults
          /\ backupPending' = backupPending
          /\ result' = [result EXCEPT
                !.total_records = GetRecordCount(table, filter_conditions)]
          /\ pc' = "backup"
    /\ UNCHANGED <<executorVars, callVars, envVars, table, tableExists, backup,
                   backupExists, migration_log, preTable, batches, batch,
                   rbVars, genVars, schemaVars>>

\* Lines 143-153: the session is opened and the records are counted; zero
\* records end the run at once.
ExecCount ==
    /\ pc = "count"
    /\ \/ /\ CanFail
          /\ faults' = faults + 1
          /\ RunFails
       \/ /\ faults' = faults
          /\ backupPending' = backupPending
          /\ IF GetRecordCount(table, filter_conditions) = 0
             THEN /\ result' = [result EXCEPT !.status = "completed"]
                  /\ pc' = "returned"
             ELSE /\ result' = [result EXCEPT
                        !.total_records = GetRecordCount(table, filter_conditions)]
                  /\ pc' = "backup"
    /\ UNCHANGED <<executorVars, callVars, envVars, table, tableExists, backup,
                   backupExists, migration_log, preTable, batches, batch,
                   rbVars, genVars, schemaVars>>

\* ExecCreateBackup with the guard of line 157 never true: no backup is made.
ExecCreateBackupSkipped ==
    /\ pc = "backup"
    /\ pc' = "commit"
    /\ UNCHANGED <<executorVars, callVars, envVars, dbVars, result, batches, batch,
                   rbVars, faults, genVars, schemaVars>>

\* Lines 155-160 with _create_backup_table: CREATE TABLE backup AS SELECT * FROM
\* table, in execute's session.  Where DDL is transactional the backup is
\* pending until the commit; elsewhere it is durable when the statement returns.
ExecCreateBackup ==
    /\ pc = "backup"
    /\ IF enable_rollback /\ ~dry_run
       THEN \/ /\ CanFail
               /\ faults' = faults + 1
               /\ RunFails
               /\ UNCHANGED <<ddl_transactional, backup, backupExists>>
            \/ /\ faults' = faults
               /\ \E d \in Observe(ddl_transactional) :
                    /\ ddl_transactional' = d
                    /\ backup' = table
                    /\ backupPending' = (d = "yes")
                    /\ backupExists' = (d = "no")
               /\ pc' = "commit"
               /\ result' = result
       ELSE /\ pc' = "commit"
            /\ UNCHANGED <<faults, result, ddl_transactional, backup, backupExists,
                           backupPending>>
    /\ UNCHANGED <<executorVars, callVars, importable, has_table, table, tableExists,
                   migration_log, preTable, batches, batch, rbVars, genVars, schemaVars>>

\* Lines 162-178: session.commit(), then the batches are generated and handed
\* to the sequential loop or submitted to the thread pool.
ExecCommit ==
    /\ pc = "commit"
    /\ \/ /\ CanFail
          /\ faults' = faults + 1
          /\ RunFails
          /\ UNCHANGED <<backupExists, batches, batch>>
       \/ /\ faults' = faults
          /\ backupExists' = (backupExists \/ backupPending)
          /\ backupPending' = FALSE
          /\ batches' = GenerateBatches(result.total_records, batch_size)
          /\ batch' = [k \in DOMAIN GenerateBatches(result.total_records, batch_size) |->
                          QueuedBatch(GenerateBatches(result.total_records, batch_size)[k])]
          /\ pc' = "batches"
          /\ result' = result
    /\ UNCHANGED <<executorVars, callVars, envVars, table, tableExists, backup,
                   migration_log, preTable, rbVars, genVars, schemaVars>>

\* Line 169: which of the two processing loops runs.
Parallel == parallel /\ max_workers > 1

\* CanStart without the order of the sequential loop: any queued batch starts.
CanStartAnyOrder(k) == batch[k].pc = "queued"

\* When batch k may start: in the sequential loop after every earlier batch was
\* added to the result; in the pool in submission order, while a worker is free.
CanStart(k) ==
    /\ batch[k].pc = "queued"
    /\ IF Parallel
       THEN /\ \A j \in 1..(k - 1) : batch[j].pc # "queued"
            /\ Cardinality({j \in DOMAIN batch : batch[j].pc = "processing"}) < max_workers
       ELSE \A j \in 1..(k - 1) : batch[j].pc = "collected"

\* _process_batch, lines 319-348: the batch session is opened, the records are
\* fetched and the row loop runs; the UPDATEs stay pending in the session.
BatchFetch(k) ==
    /\ pc = "batches"
    /\ CanStart(k)
    /\ \/ \* session_maker() raises at line 325, outside the try of _process_batch
          /\ CanFail
          /\ faults' = faults + 1
          /\ IF Parallel
             THEN /\ batch' = [batch EXCEPT ![k].pc = "done", ![k].status = "raised"]
                  /\ UNCHANGED <<pc, result, backupPending>>
             ELSE /\ RunFails
                  /\ batch' = batch
          /\ has_table' = has_table
       \/ \* _fetch_batch_records raises: session.rollback(), batch FAILED
          /\ CanFail
          /\ faults' = faults + 1
          /\ batch' = [batch EXCEPT ![k].pc = "done", ![k].status = "failed"]
          /\ UNCHANGED <<pc, result, backupPending, has_table>>
       \/ /\ faults' = faults
          /\ LET records == FetchBatchRecords(table, filter_conditions, batches[k])
             IN \E h \in IF ReachesTable(records, migration_func, dry_run)
                         THEN Observe(has_table) ELSE {has_table} :
                  LET loop == ProcessRecords(records, migration_func, dry_run, h, EmptyLoop)
                  IN /\ has_table' = h
                     /\ batch' = [batch EXCEPT
                            ![k].pc = "processing",
                            ![k].status = "processing",
                            ![k].records = records,
                            ![k].updates = loop.updates,
                            ![k].records_processed = loop.records_processed,
                            ![k].records_failed = loop.records_failed,
                            ![k].failed_record_ids = loop.failed_record_ids]
          /\ UNCHANGED <<pc, result, backupPending>>
    /\ UNCHANGED <<executorVars, callVars, importable, ddl_transactional, table,
                   tableExists, backup, backupExists, migration_log, preTable,
                   batches, rbVars, genVars, schemaVars>>

\* BatchCommit whose UPDATEs are also applied to the backup table.
BatchCommitWritesBackup(k) ==
    /\ pc = "batches"
    /\ batch[k].pc = "processing"
    /\ \/ /\ faults' = faults
          /\ table' = IF dry_run THEN table ELSE ApplyUpdates(table, batch[k].updates)
          /\ backup' = IF dry_run THEN backup ELSE ApplyUpdates(backup, batch[k].updates)
          /\ batch' = [batch EXCEPT ![k].pc = "done", ![k].status = "completed",
                                    ![k].updates = <<>>]
       \/ /\ ~dry_run
          /\ CanFail
          /\ faults' = faults + 1
          /\ table' = table
          /\ backup' = backup
          /\ batch' = [batch EXCEPT ![k].pc = "done", ![k].status = "failed",
                                    ![k].updates = <<>>]
    /\ UNCHANGED <<executorVars, callVars, envVars, tableExists, backupExists,
                   backupPending, migration_log, preTable, pc, result, batches,
                   rbVars, genVars, schemaVars>>

\* BatchCommit with the session.rollback() of line 356 lost: the UPDATEs of a
\* batch whose commit failed reach the table all the same.
BatchCommitFailureKeepsWrites(k) ==
    /\ pc = "batches"
    /\ batch[k].pc = "processing"
    /\ \/ /\ faults' = faults
          /\ table' = IF dry_run THEN table ELSE ApplyUpdates(table, batch[k].updates)
          /\ batch' = [batch EXCEPT ![k].pc = "done", ![k].status = "completed",
                                    ![k].updates = <<>>]
       \/ /\ ~dry_run
          /\ CanFail
          /\ faults' = faults + 1
          /\ table' = ApplyUpdates(table, batch[k].updates)
          /\ batch' = [batch EXCEPT ![k].pc = "done", ![k].status = "failed",
                                    ![k].updates = <<>>]
    /\ UNCHANGED <<executorVars, callVars, envVars, tableExists, backup, backupExists,
                   backupPending, migration_log, preTable, pc, result, batches,
                   rbVars, genVars, schemaVars>>

\* _process_batch, lines 350-365: the batch transaction is committed (not in a
\* dry run); a failing commit rolls the batch back and marks it FAILED, with
\* the counters of the row loop left as they are.
BatchCommit(k) ==
    /\ pc = "batches"
    /\ batch[k].pc = "processing"
    /\ \/ /\ faults' = faults
          /\ table' = IF dry_run THEN table ELSE ApplyUpdates(table, batch[k].updates)
          /\ batch' = [batch EXCEPT ![k].pc = "done", ![k].status = "completed",
                                    ![k].updates = <<>>]
       \/ /\ ~dry_run
          /\ CanFail
          /\ faults' = faults + 1
          /\ table' = table
          /\ batch' = [batch EXCEPT ![k].pc = "done", ![k].status = "failed",
                                    ![k].updates = <<>>]
    /\ UNCHANGED <<executorVars, callVars, envVars, tableExists, backup, backupExists,
                   backupPending, migration_log, preTable, pc, result, batches,
                   rbVars, genVars, schemaVars>>

\* The coordinating thread adds a finished batch to the result: line 265 in the
\* sequential loop; lines 293-311 in the pool, in completion order, where a
\* future that raised yields a FAILED BatchResult with zero counters.
CollectBatch(k) ==
    /\ pc = "batches"
    /\ batch[k].pc = "done"
    /\ result' = AddBatchResult(result,
                    IF batch[k].status = "raised"
                    THEN [batch_id |-> batch[k].batch_id, status |-> "failed",
                          records_processed |-> 0, records_failed |-> 0,
                          failed_record_ids |-> <<>>]
                    ELSE BatchResultOf(batch[k]))
    /\ batch' = [batch EXCEPT ![k].pc = "collected"]
    /\ UNCHANGED <<executorVars, callVars, envVars, dbVars, pc, batches,
                   rbVars, faults, genVars, schemaVars>>

\* Lines 180-186: every batch was added; the final status is derived.
ExecFinish ==
    /\ pc = "batches"
    /\ \A k \in DOMAIN batch : batch[k].pc = "collected"
    /\ result' = [result EXCEPT !.status = FinalStatus(result)]
    /\ pc' = "log"
    /\ UNCHANGED <<executorVars, callVars, envVars, dbVars, batches, batch,
                   rbVars, faults, genVars, schemaVars>>

\* The DataMigration row _log_migration adds (lines 450-463).
LogEntry ==
    [migration_id      |-> RunId,
     status            |-> result.status,
     records_processed |-> result.records_processed,
     records_failed    |-> result.records_failed,
     backup_table_name |-> IF enable_rollback /\ ~dry_run THEN "backup" ELSE "none"]

\* Lines 188-206: a non-dry run is logged and the log committed; an ImportError
\* in _log_migration is swallowed and nothing is logged; a failing commit fails
\* the run.
ExecLog ==
    /\ pc = "log"
    /\ IF dry_run
       THEN /\ pc' = "returned"
            /\ UNCHANGED <<result, importable, migration_log, backupPending, faults>>
       ELSE \E i \in Observe(importable) :
              /\ importable' = i
              /\ \/ /\ faults' = faults
                    /\ migration_log' = IF i = "yes" THEN migration_log \cup {LogEntry}
                                        ELSE migration_log
                    /\ pc' = "returned"
                    /\ UNCHANGED <<result, backupPending>>
                 \/ /\ CanFail
                    /\ faults' = faults + 1
                    /\ RunFails
                    /\ migration_log' = migration_log
    /\ UNCHANGED <<executorVars, callVars, ddl_transactional, has_table, table,
                   tableExists, backup, backupExists, preTable, batches, batch,
                   rbVars, genVars, schemaVars>>

\* ------------------------------------------------------ rollback_migration
\* What one rollback_migration call leaves behind: its return value, the
\* statements it issued, the tables, the log and the failures injected.
RollbackEnds(ret, stmts, rows, rowsExist, bk, bkExists, log, failed) ==
    /\ rb_return' = ret
    /\ rb_statements' = stmts
    /\ table' = rows
    /\ tableExists' = rowsExist
    /\ backup' = bk
    /\ backupExists' = bkExists
    /\ migration_log' = log
    /\ faults' = faults + failed

\* Returns False with the database as it was (lines 483-485, or an exception
\* before any DDL took effect followed by session.rollback()).
RollbackRefused(stmts, failed) ==
    RollbackEnds(FALSE, stmts, table, tableExists, backup, backupExists,
                 migration_log, failed)

\* Lines 499-500: the DataMigration row of the run marked rolled back.
MarkRolledBack(log, mid) ==
    { IF m.migration_id = mid THEN [m EXCEPT !.status = "rolled_back"] ELSE m :
        m \in log }

\* Lines 494-510: DROP TABLE original, ALTER TABLE backup RENAME TO original,
\* status update, commit; an exception at any of them leads to
\* session.rollback() and False.  session.rollback() undoes the DDL already
\* executed only where DDL is transactional.
RollbackSwap(mid, d) ==
    \/ \* DROP TABLE raises: no live table, or the database fails
       /\ ~tableExists \/ CanFail
       /\ RollbackRefused(<<"DROP">>, IF tableExists THEN 1 ELSE 0)
    \/ \* DROP done, ALTER TABLE ... RENAME raises: no backup table, or a failure
       /\ tableExists
       /\ ~backupExists \/ CanFail
       /\ IF d = "yes"
          THEN RollbackRefused(<<"DROP", "RENAME">>, IF backupExists THEN 1 ELSE 0)
          ELSE RollbackEnds(FALSE, <<"DROP", "RENAME">>, <<>>, FALSE, backup,
                            backupExists, migration_log,
                            IF backupExists THEN 1 ELSE 0)
    \/ \* DROP and RENAME done, session.commit() raises
       /\ tableExists
       /\ backupExists
       /\ CanFail
       /\ IF d = "yes"
          THEN RollbackRefused(<<"DROP", "RENAME", "UPDATE">>, 1)
          ELSE RollbackEnds(FALSE, <<"DROP", "RENAME", "UPDATE">>, backup, TRUE,
                            <<>>, FALSE, migration_log, 1)
    \/ \* all committed
       /\ tableExists
       /\ backupExists
       /\ RollbackEnds(TRUE, <<"DROP", "RENAME", "UPDATE">>, backup, TRUE,
                       <<>>, FALSE, MarkRolledBack(migration_log, mid), 0)

\* NoRollbackAvailable testing only `not migration`: backup_table_name ignored.
NoRollbackAvailableAnyRow(log, mid) ==
    \A m \in log : m.migration_id # mid

\* Line 483: no DataMigration row for the id, or one without backup_table_name.
NoRollbackAvailable(log, mid) ==
    \A m \in log : m.migration_id # mid \/ m.backup_table_name = "none"

\* rollback_migration(migration_id), lines 470-513, called by the operator
\* after execute_migration returned.
RollbackMigration(mid) ==
    /\ pc = "returned"
    /\ rb_id' = mid
    /\ \E i \in Observe(importable) :
         /\ importable' = i
         /\ IF i = "no"
            THEN \* ImportError at line 475, caught at line 507
                 /\ RollbackRefused(<<>>, 0)
                 /\ ddl_transactional' = ddl_transactional
            ELSE \/ \* the query of lines 479-481 raises
                    /\ CanFail
                    /\ RollbackRefused(<<>>, 1)
                    /\ ddl_transactional' = ddl_transactional
                 \/ IF NoRollbackAvailable(migration_log, mid)
                    THEN /\ RollbackRefused(<<>>, 0)
                         /\ ddl_transactional' = ddl_transactional
                    ELSE \E d \in Observe(ddl_transactional) :
                           /\ ddl_transactional' = d
                           /\ RollbackSwap(mid, d)
    /\ UNCHANGED <<executorVars, callVars, has_table, backupPending, preTable,
                   runVars, genVars, schemaVars>>

\* ------------------------------------------------------------------ Spec
Next ==
    \/ ExecStart
    \/ ExecCount
    \/ ExecCreateBackup
    \/ ExecCommit
    \/ \E k \in DOMAIN batch : BatchFetch(k)
    \/ \E k \in DOMAIN batch : BatchCommit(k)
    \/ \E k \in DOMAIN batch : CollectBatch(k)
    \/ ExecFinish
    \/ ExecLog
    \/ \E mid \in {RunId, UnknownId} : RollbackMigration(mid)

Spec == Init /\ [][Next]_vars

\* _generate_batches applied to its inputs, the generator drained into a list.
GenApply ==
    /\ gen_out = <<>>
    /\ gen_out' = GenerateBatches(gen_total, gen_batch_size)
    /\ UNCHANGED <<executorVars, callVars, envVars, dbVars, runVars, rbVars, faults,
                   gen_total, gen_batch_size, schemaVars>>

NextBatches == GenApply

SpecBatches == InitBatches /\ [][NextBatches]_vars

\* _process_batches_sequential with no collaborator failing, as a function of
\* the call: each batch in turn is fetched from the rows the earlier batches
\* left, its row loop runs, its UPDATEs are committed and its BatchResult is
\* added to the result.
RECURSIVE SequentialRun(_, _, _, _)
SequentialRun(rows, params, hasTable, res) ==
    IF params = <<>> THEN [res EXCEPT !.status = FinalStatus(res)]
    ELSE
      LET loop == ProcessRecords(
                      FetchBatchRecords(rows, filter_conditions, Head(params)),
                      migration_func, dry_run, hasTable, EmptyLoop)
      IN SequentialRun(
            IF dry_run THEN rows ELSE ApplyUpdates(rows, loop.updates),
            Tail(params), hasTable,
            AddBatchResult(res,
                [batch_id          |-> Head(params).batch_num,
                 status            |-> "completed",
                 records_processed |-> loop.records_processed,
                 records_failed    |-> loop.records_failed,
                 failed_record_ids |-> loop.failed_record_ids]))

\* The result execute_migration(parallel=False) derives for the table as it was
\* before the run, when no collaborator fails.
SequentialOutcome ==
    SequentialRun(preTable, batches, has_table,
                  [NoResult EXCEPT !.status = "running",
                                   !.total_records = result.total_records,
                                   !.rollback_available = result.rollback_available])

\* One call: apply_schema_changes(changes) by a caller of its own, or
\* process_scraped_data on a DynamicColumnSystem, against a table with some of
\* the columns.
InitSchema ==
    /\ MainParked
    /\ GenIdle
    /\ dialect \in Dialects
    /\ db_columns \in SUBSET ColumnNames
    /\ db_modified = {}
    /\ db_archive = {}
    /\ tx_columns = {}
    /\ tx_modified = {}
    /\ tx_archive = {}
    /\ tx_aborted = FALSE
    /\ ap_i = 1
    /\ results = NoMigrationResults
    /\ ddl_log = <<>>
    /\ ddl_faulted = {}
    /\ archive_raised = FALSE
    /\ pr_results = NoProcessResults
    /\ pr_calls = <<>>
    /\ DetectorIdle
    /\ \/ /\ entry = "apply"
          /\ changes \in ChangeLists
          /\ auto_migrate = FALSE
          /\ pause_on_changes = TRUE
          /\ ap_pc = "open"
          /\ pr_pc = "idle"
       \/ /\ entry = "process"
          /\ changes \in DetectedLists
          /\ auto_migrate \in BOOLEAN
          /\ pause_on_changes \in BOOLEAN
          /\ ap_pc = "idle"
          /\ pr_pc = "start"

\* The columns the session sees: committed ones and those of its transaction.
VisibleColumns == db_columns \cup tx_columns

\* An exception leaves apply_schema_changes: process_scraped_data, which has
\* no handler around the call of line 449, ends with it.
ApplyRaises ==
    /\ ap_pc' = "raised"
    /\ pr_pc' = IF entry = "process" THEN "raised" ELSE pr_pc

\* session.rollback() (line 280) and session.close(): what the transaction
\* held is dropped.
SessionRollback ==
    /\ tx_columns' = {}
    /\ tx_modified' = {}
    /\ tx_archive' = {}
    /\ tx_aborted' = FALSE

\* Lines 245-251: the results dictionary is created and the session opened,
\* outside the try.
ApplyOpen ==
    /\ ap_pc = "open"
    /\ \/ /\ CanFail
          /\ faults' = faults + 1
          /\ ApplyRaises
       \/ /\ faults' = faults
          /\ ap_pc' = "changes"
          /\ pr_pc' = pr_pc
    /\ UNCHANGED <<parkedVars, schemaInputVars, schemaDbVars, schemaTxVars, ap_i,
                   results, ddl_log, ddl_faulted, archive_raised, pr_results, pr_calls>>

\* session.execute(text(alter_sql)) for change i (lines 307, 327).  The
\* statement fails when the transaction is aborted (PostgreSQL after an earlier
\* failed statement), when the database rejects it, or when the database fails;
\* a failed statement aborts a PostgreSQL transaction.
ExecuteDDL(i, branch, failedByFault) ==
    LET c       == changes[i].column_name
        aborted == TransactionalDDL(dialect) /\ tx_aborted
        ok      == /\ ~aborted
                   /\ ~Rejected(branch, c, VisibleColumns)
                   /\ ~failedByFault
    IN /\ ddl_log' = Append(ddl_log,
                        [statement |-> Statement(branch, dialect),
                         change |-> i, ok |-> ok])
       /\ ddl_faulted' = IF failedByFault THEN ddl_faulted \cup {i} ELSE ddl_faulted
       /\ tx_aborted' = (tx_aborted \/ (TransactionalDDL(dialect) /\ ~ok))
       /\ IF ok /\ branch = "add_column"
          THEN IF TransactionalDDL(dialect)
               THEN tx_columns' = tx_columns \cup {c} /\ db_columns' = db_columns
               ELSE db_columns' = db_columns \cup {c} /\ tx_columns' = tx_columns
          ELSE UNCHANGED <<db_columns, tx_columns>>
       /\ IF ok /\ branch = "modify_column"
          THEN IF TransactionalDDL(dialect)
               THEN tx_modified' = tx_modified \cup {c} /\ db_modified' = db_modified
               ELSE db_modified' = db_modified \cup {c} /\ tx_modified' = tx_modified
          ELSE UNCHANGED <<db_modified, tx_modified>>
       /\ results' = IF ok THEN [results EXCEPT !.applied = Append(@, changes[i])]
                     ELSE [results EXCEPT !.failed = Append(@, changes[i])]

\* One iteration of the loop of lines 254-273, for change ap_i.
ApplyChange ==
    /\ ap_pc = "changes"
    /\ ap_i <= Len(changes)
    /\ LET branch == Dispatch(changes[ap_i].operation)
       IN IF branch = "skip"
          THEN /\ results' = [results EXCEPT !.skipped = Append(@, changes[ap_i])]
               /\ UNCHANGED <<faults, schemaDbVars, schemaTxVars, ddl_log, ddl_faulted>>
          ELSE IF IssuesDDL(branch, dialect)
          THEN \/ /\ faults' = faults
                  /\ ExecuteDDL(ap_i, branch, FALSE)
               \/ /\ CanFail
                  /\ faults' = faults + 1
                  /\ ExecuteDDL(ap_i, branch, TRUE)
               /\ db_archive' = db_archive
               /\ tx_archive' = tx_archive
          ELSE \* _modify_column returned at line 322: line 261 appends to applied
               /\ results' = [results EXCEPT !.applied = Append(@, changes[ap_i])]
               /\ UNCHANGED <<faults, schemaDbVars, schemaTxVars, ddl_log, ddl_faulted>>
    /\ ap_i' = ap_i + 1
    /\ UNCHANGED <<parkedVars, schemaInputVars, ap_pc, archive_raised, pr_pc, pr_results, pr_calls>>

\* _record_schema_changes (lines 329-348): one SchemaChange per applied change
\* is added to the session; an exception (the import, the constructor) stops
\* the loop after the first n and is swallowed with a warning.
ApplyRecord ==
    /\ ap_pc = "changes"
    /\ ap_i > Len(changes)
    /\ \E n \in 0..Len(results.applied) :
         /\ archive_raised' = (n < Len(results.applied))
         /\ tx_archive' = { results.applied[j] : j \in 1..n }
    /\ ap_pc' = "commit"
    /\ UNCHANGED <<parkedVars, faults, schemaInputVars, schemaDbVars, tx_columns,
                   tx_modified, tx_aborted, ap_i, results, ddl_log, ddl_faulted,
                   pr_pc, pr_results, pr_calls>>

\* Lines 277-286: session.commit().  The flush of the SchemaChange rows fails in
\* an aborted transaction, or the database fails: rollback, the exception is
\* re-raised (line 282).  With nothing to flush, PostgreSQL answers the COMMIT
\* of an aborted transaction by rolling it back, without an error.
ApplyCommit ==
    /\ ap_pc = "commit"
    /\ \/ \* the commit raises
          /\ \/ /\ tx_aborted /\ tx_archive # {}
                /\ faults' = faults
             \/ /\ CanFail
                /\ faults' = faults + 1
          /\ SessionRollback
          /\ ApplyRaises
          /\ UNCHANGED <<schemaDbVars, pr_results, pr_calls>>
       \/ \* the commit returns
          /\ ~(tx_aborted /\ tx_archive # {})
          /\ faults' = faults
          /\ db_columns' = IF tx_aborted THEN db_columns ELSE db_columns \cup tx_columns
          /\ db_modified' = IF tx_aborted THEN db_modified ELSE db_modified \cup tx_modified
          /\ db_archive' = db_archive \cup tx_archive
          /\ SessionRollback
          /\ ap_pc' = "returned"
          /\ UNCHANGED <<pr_pc, pr_results, pr_calls>>
    /\ UNCHANGED <<parkedVars, schemaInputVars, ap_i, results, ddl_log, ddl_faulted,
                   archive_raised>>

\* process_scraped_data, lines 433-442: the detector is called and the results
\* dictionary created; without changes it is returned as it is.
ProcessDetect ==
    /\ pr_pc = "start"
    /\ pr_calls' = Append(pr_calls, "detect")
    /\ pr_results' = [NoProcessResults EXCEPT !.changes_detected = Len(changes)]
    /\ pr_pc' = IF changes # <<>> THEN "feedback" ELSE "returned"
    /\ UNCHANGED <<parkedVars, faults, schemaInputVars, schemaDbVars, schemaTxVars,
                   applyVars>>

\* ProcessFeedback with the `and continue_scraping` of line 448 dropped.
ProcessFeedbackIgnoringAnswer ==
    /\ pr_pc = "feedback"
    /\ pr_results' =
          [pr_results EXCEPT
              !.continue_scraping = HandleSchemaChanges(changes, pause_on_changes)]
    /\ IF auto_migrate
       THEN /\ pr_calls' = pr_calls \o <<"feedback", "migrate">>
            /\ pr_pc' = "migrate"
            /\ ap_pc' = "open"
       ELSE /\ pr_calls' = Append(pr_calls, "feedback")
            /\ pr_pc' = "returned"
            /\ ap_pc' = ap_pc
    /\ UNCHANGED <<parkedVars, faults, schemaInputVars, schemaDbVars, schemaTxVars,
                   ap_i, results, ddl_log, ddl_faulted, archive_raised>>

\* Lines 443-449: the feedback system is asked; with auto_migrate set and its
\* answer True, apply_schema_changes is called.
ProcessFeedback ==
    /\ pr_pc = "feedback"
    /\ pr_results' =
          [pr_results EXCEPT
              !.continue_scraping = HandleSchemaChanges(changes, pause_on_changes)]
    /\ IF auto_migrate /\ HandleSchemaChanges(changes, pause_on_changes)
       THEN /\ pr_calls' = pr_calls \o <<"feedback", "migrate">>
            /\ pr_pc' = "migrate"
            /\ ap_pc' = "open"
       ELSE /\ pr_calls' = Append(pr_calls, "feedback")
            /\ pr_pc' = "returned"
            /\ ap_pc' = ap_pc
    /\ UNCHANGED <<parkedVars, faults, schemaInputVars, schemaDbVars, schemaTxVars,
                   ap_i, results, ddl_log, ddl_faulted, archive_raised>>

\* Lines 449-457: apply_schema_changes returned its results.
ProcessMigrated ==
    /\ pr_pc = "migrate"
    /\ ap_pc = "returned"
    /\ pr_results' =
          [pr_results EXCEPT
              !.has_migration_results = TRUE,
              !.migration_applied = Len(results.applied) > 0,
              !.continue_scraping = ContinueAfterMigration(@, results.failed)]
    /\ pr_pc' = "returned"
    /\ UNCHANGED <<parkedVars, faults, schemaInputVars, schemaDbVars, schemaTxVars,
                   applyVars, pr_calls>>

NextSchema ==
    \/ ApplyOpen
    \/ ApplyChange
    \/ ApplyRecord
    \/ ApplyCommit
    \/ ProcessDetect
    \/ ProcessFeedback
    \/ ProcessMigrated

SpecSchema == InitSchema /\ [][NextSchema]_vars

\* ============================================ SchemaFeedbackSystem alone
\* One handle_schema_changes(changes, scraper_name) call on a
\* SchemaFeedbackSystem built with any pause_on_changes and any callback.
OthersParked == MainParked /\ GenIdle /\ ManagerIdle

InitFeedback ==
    /\ OthersParked
    /\ InferIdle
    /\ DetectIdle
    /\ fb_changes \in ChangeLists
    /\ fb_pause \in BOOLEAN
    /\ notification_callback \in Callbacks
    /\ fb_pc = "start"
    /\ fb_notified = 0
    /\ fb_return = TRUE

\* Lines 372-385 with the except clause left out: the callback's exception
\* leaves handle_schema_changes.
FeedbackNotifyPropagates ==
    /\ fb_pc = "start"
    /\ IF fb_changes = <<>>
       THEN /\ fb_pc' = "returned"
            /\ fb_return' = TRUE
            /\ fb_notified' = fb_notified
       ELSE /\ fb_notified' = IF notification_callback # "none"
                              THEN fb_notified + 1 ELSE fb_notified
            /\ fb_pc' = IF notification_callback = "raises"
                        THEN "raised" ELSE "notified"
            /\ fb_return' = fb_return
    /\ UNCHANGED <<executorVars, callVars, envVars, dbVars, runVars, rbVars, faults,
                   genVars, managerVars, inferVars, detectVars, fb_changes,
                   fb_pause, notification_callback>>

\* Lines 372-385: the empty list returns True at once; otherwise the changes
\* are logged and the callback, if there is one, is called inside try/except.
FeedbackNotify ==
    /\ fb_pc = "start"
    /\ IF fb_changes = <<>>
       THEN /\ fb_pc' = "returned"
            /\ fb_return' = TRUE
            /\ fb_notified' = fb_notified
       ELSE /\ fb_notified' = IF notification_callback # "none"
                              THEN fb_notified + 1 ELSE fb_notified
            /\ fb_pc' = "notified"
            /\ fb_return' = fb_return
    /\ UNCHANGED <<executorVars, callVars, envVars, dbVars, runVars, rbVars, faults,
                   genVars, managerVars, inferVars, detectVars, fb_changes,
                   fb_pause, notification_callback>>

\* Lines 387-394: the value returned.
FeedbackReturn ==
    /\ fb_pc = "notified"
    /\ fb_return' = HandleSchemaChanges(fb_changes, fb_pause)
    /\ fb_pc' = "returned"
    /\ UNCHANGED <<executorVars, callVars, envVars, dbVars, runVars, rbVars, faults,
                   genVars, managerVars, inferVars, detectVars, fb_changes,
                   fb_pause, notification_callback, fb_notified>>

NextFeedback == FeedbackNotify \/ FeedbackReturn

SpecFeedback == InitFeedback /\ [][NextFeedback]_vars

\* ================================================= type inference alone
\* _analyze_data_structure applied to the values of one column.
SampleLists ==
    UNION { [1..n -> SampleValues] : n \in 1..MaxSamples }

InitInfer ==
    /\ OthersParked
    /\ FeedbackIdle
    /\ DetectIdle
    /\ samples \in SampleLists
    /\ inf_pc = "start"
    /\ descriptor = NoDescriptor

InferApply ==
    /\ inf_pc = "start"
    /\ descriptor' = AnalyzeColumn(Sampled(samples))
    /\ inf_pc' = "done"
    /\ UNCHANGED <<executorVars, callVars, envVars, dbVars, runVars, rbVars, faults,
                   genVars, managerVars, feedbackVars, detectVars, samples>>

NextInfer == InferApply

SpecInfer == InitInfer /\ [][NextInfer]_vars

\* ============================================ SchemaChangeDetector alone
\* One detector (one inspector) on one table: detect calls with the same
\* records, and between them apply_schema_changes with add changes of the
\* last detect.
ScrapedLists ==
    UNION { [1..n -> ScrapedRecords] : n \in 0..MaxRecords }

InitDetect ==
    /\ OthersParked
    /\ FeedbackIdle
    /\ InferIdle
    /\ scraped_data \in ScrapedLists
    /\ live \in LiveTables
    /\ info_cache = NoCache
    /\ det_pc = "ready"
    /\ detected = <<>>

NoChanges == [call |-> "detect", raised |-> FALSE, changes |-> <<>>]

\* detect_changes_from_scraped_data that pops the record it looked at last.
DetectConsumingRecords ==
    /\ det_pc = "ready"
    /\ Len(detected) < MaxCalls
    /\ IF scraped_data = <<>>
       THEN /\ detected' = Append(detected, NoChanges)
            /\ UNCHANGED <<info_cache, scraped_data>>
       ELSE /\ detected' = Append(detected,
                    DetectChanges(GetTableColumns(info_cache, live), scraped_data))
            /\ info_cache' = CacheAfterGetColumns(info_cache, live)
            /\ scraped_data' = SubSeq(scraped_data, 1, Len(scraped_data) - 1)
    /\ UNCHANGED <<executorVars, callVars, envVars, dbVars, runVars, rbVars, faults,
                   genVars, managerVars, feedbackVars, inferVars, live, det_pc>>

\* detect_changes_from_scraped_data (lines 30-81).
Detect ==
    /\ det_pc = "ready"
    /\ Len(detected) < MaxCalls
    /\ IF scraped_data = <<>>
       THEN /\ detected' = Append(detected, NoChanges)
            /\ info_cache' = info_cache
       ELSE /\ detected' = Append(detected,
                    DetectChanges(GetTableColumns(info_cache, live), scraped_data))
            /\ info_cache' = CacheAfterGetColumns(info_cache, live)
    /\ UNCHANGED <<executorVars, callVars, envVars, dbVars, runVars, rbVars, faults,
                   genVars, managerVars, feedbackVars, inferVars, scraped_data,
                   live, det_pc>>

\* The add changes of a detect result whose ALTER TABLE ADD COLUMN the
\* database accepts.
ApplicableAdds(lv, chs) ==
    SelectSeq(chs, LAMBDA ch : /\ ch.operation = "add"
                               /\ lv.exists
                               /\ lv.columns[ch.column_name] = "absent")

RECURSIVE AddColumns(_, _)
AddColumns(cols, chs) ==
    IF chs = <<>> THEN cols
    ELSE AddColumns([cols EXCEPT ![Head(chs).column_name] =
                                     Head(chs).new_definition.sql_type],
                    Tail(chs))

\* apply_schema_changes with the applicable add changes of the last detect,
\* every statement and the commit succeeding: each column is added with the
\* sql_type of its new_definition (lines 288-307).
ApplyAdds ==
    /\ det_pc = "ready"
    /\ Len(detected) < MaxCalls
    /\ detected # <<>>
    /\ LET last == detected[Len(detected)]
           adds == ApplicableAdds(live, last.changes)
       IN /\ last.call = "detect"
          /\ adds # <<>>
          /\ live' = [live EXCEPT !.columns = AddColumns(@, adds)]
          /\ detected' = Append(detected,
                            [call |-> "apply", raised |-> FALSE, changes |-> adds])
    /\ UNCHANGED <<executorVars, callVars, envVars, dbVars, runVars, rbVars, faults,
                   genVars, managerVars, feedbackVars, inferVars, scraped_data,
                   info_cache, det_pc>>

NextDetect == Detect \/ ApplyAdds

SpecDetect == InitDetect /\ [][NextDetect]_vars


\* ================================================================ claims
\* The rows the count query selected when the run started.
TargetIds ==
    { SelectRows(preTable, filter_conditions)[i].id :
        i \in 1..Len(SelectRows(preTable, filter_conditions)) }

\* C1: every execute_migration call returns a run whose status is completed,
\* partial or failed, never pending or running, whichever collaborator failed.
C1_ReturnedStatusIsTerminal ==
    pc = "returned" => result.status \in {"completed", "partial", "failed"}

\* A run that returned after a collaborator failed before any batch ran.
C1_Witness ==
    /\ pc = "returned"
    /\ result.error
    /\ faults > 0
    /\ result.total_records > 0
    /\ result.batch_results = <<>>

\* C2: after all batches of a run with total_records > 0 finished, the status
\* follows the counters: no failed record gives completed, some processed and
\* some failed gives partial, nothing processed gives failed.
C2_StatusFollowsCounters ==
    (pc = "log" /\ result.total_records > 0) =>
        /\ result.records_failed = 0 => result.status = "completed"
        /\ (result.records_processed > 0 /\ result.records_failed > 0)
              => result.status = "partial"
        /\ result.records_processed = 0 => result.status = "failed"

\* C3: in a run with rollback enabled and dry_run false, while no rollback was
\* asked for, an UPDATE is pending in a batch session or the live table differs
\* from its rows at the start only when the backup table exists, committed,
\* holding the rows the live table had at the start.
C3_BackupBeforeMutation ==
    ( /\ enable_rollback
      /\ ~dry_run
      /\ rb_id = 0
      /\ \/ table # preTable
         \/ \E k \in DOMAIN batch : batch[k].updates # <<>> )
    => (backupExists /\ ~backupPending /\ backup = preTable)

\* A batch of such a run has committed a change to the live table.
C3_Witness ==
    /\ enable_rollback
    /\ ~dry_run
    /\ rb_id = 0
    /\ table # preTable
    /\ backupExists

\* How many times the transform was handed the record with this id, over all
\* batches of the run.
Attempts(id) ==
    Cardinality({ ki \in { <<k, i>> : k \in DOMAIN batch, i \in 1..MaxBatchSize } :
                    /\ ki[2] <= Len(batch[ki[1]].records)
                    /\ batch[ki[1]].records[ki[2]].id = id })

SequentialRunAgrees ==
    (pc = "log" /\ faults = 0 /\ ~Parallel) => result = SequentialOutcome

\* The least n with n * b >= t.
CeilDiv(t, b) == CHOOSE n \in 0..t : n * b >= t /\ (n - 1) * b < t

\* Record position r of [0, total_records) lies in the slice LIMIT/OFFSET of bp.
InBatch(bp, r) == bp.offset <= r /\ r < bp.offset + bp.limit

\* The positions of [0, total) the batch covers.
BatchSize(bp, total) == Cardinality({ r \in 0..(total - 1) : InBatch(bp, r) })

\* C6: for total_records >= 1 and batch_size >= 1, _generate_batches yields
\* ceil(total_records / batch_size) batches at offsets 0, batch_size,
\* 2*batch_size, ...; every position of [0, total_records) lies in exactly one
\* batch and no batch is empty; 2500 records with batch size 1000 give offsets
\* 0, 1000, 2000 covering 1000, 1000 and 500 records.
C6_BatchesPartition ==
    gen_out # <<>> =>
        /\ Len(gen_out) = CeilDiv(gen_total, gen_batch_size)
        /\ \A k \in 1..Len(gen_out) :
              /\ gen_out[k].offset = (k - 1) * gen_batch_size
              /\ gen_out[k].batch_num = k - 1
              /\ BatchSize(gen_out[k], gen_total) >= 1
        /\ \A r \in 0..(gen_total - 1) :
              Cardinality({ k \in 1..Len(gen_out) : InBatch(gen_out[k], r) }) = 1
        /\ (gen_total = 2500 /\ gen_batch_size = 1000) =>
              /\ [k \in 1..Len(gen_out) |-> gen_out[k].offset] = <<0, 1000, 2000>>
              /\ [k \in 1..Len(gen_out) |-> BatchSize(gen_out[k], gen_total)]
                    = <<1000, 1000, 500>>

\* Batches were generated whose last one is only partly filled.
C6_Witness ==
    /\ Len(gen_out) = 3
    /\ gen_total % gen_batch_size # 0

\* A run executed with dry_run false and rollback enabled on records to migrate.
BackedUpRun == enable_rollback /\ ~dry_run /\ result.total_records > 0

\* The DataMigration row of the run says rolled back: a rollback succeeded.
RolledBack ==
    \E m \in migration_log : m.migration_id = RunId /\ m.status = "rolled_back"

\* C7: for a run executed with dry_run false and rollback enabled on a
\* non-empty table, with no collaborator failing, the first
\* rollback_migration(run id) returns True, leaves the live table with the rows
\* it held before execute_migration started and marks the run rolled back.
C7_RollbackRestores ==
    [][ ( /\ pc = "returned"
          /\ BackedUpRun
          /\ rb_id = 0
          /\ rb_id' = RunId
          /\ faults' = 0 )
        => ( /\ rb_return'
             /\ tableExists'
             /\ table' = preTable
             /\ \E m \in migration_log' :
                   m.migration_id = RunId /\ m.status = "rolled_back" ) ]_vars

NoBackupRun(mid) == mid = UnknownId \/ dry_run \/ ~enable_rollback

\* C9: rollback_migration for a run without backup table returns False, issues
\* no DROP, RENAME or status update, and leaves the live table, the backup
\* table and the migration log as they were.
C9_NoBackupNoMutation ==
    [][ (pc = "returned" /\ NoBackupRun(rb_id'))
        => ( /\ ~rb_return'
             /\ rb_statements' = <<>>
             /\ UNCHANGED <<table, tableExists, backup, backupExists,
                            migration_log>> ) ]_vars

\* rollback_migration was called for a logged run that had rollback disabled.
C9_Witness ==
    /\ rb_id = RunId
    /\ ~enable_rollback
    /\ ~dry_run
    /\ \E m \in migration_log : m.migration_id = RunId
    /\ ~rb_return

C11_DryRunNoPersistedEffect ==
    dry_run =>
        /\ tableExists
        /\ table = preTable
        /\ ~backupExists
        /\ ~backupPending
        /\ migration_log = {}
        /\ \A k \in DOMAIN batch : batch[k].updates = <<>>

\* A dry run through the thread pool returned after its transform changed
\* records.
C11_Witness ==
    /\ dry_run
    /\ Parallel
    /\ enable_rollback
    /\ pc = "returned"
    /\ result.records_processed > 0
    /\ migration_func.function = "mark_flag"

\* Does the row loop's try block raise for this record (transform or
\* write-back)?
RowRaises(record) ==
    \/ TransformRaises(migration_func.function, record)
    \/ /\ ~dry_run
       /\ UpdateRaises(record, Transform(migration_func.function, record),
                       migration_func, has_table)

\* The ids of the records of a batch whose processing raises, in fetch order.
RaisingIds(records) ==
    LET raising == SelectSeq(records, RowRaises)
    IN  [i \in 1..Len(raising) |-> raising[i].id]

\* C12: in every batch each fetched record is attempted: the records whose
\* transform or write-back raises are counted in records_failed with their ids
\* in failed_record_ids, in fetch order, and all the others are counted in
\* records_processed; a batch is marked failed only when a collaborator
\* failed, and a run in which none failed adds every batch to the result and
\* returns without error.
C12_BadRowIsIsolated ==
    /\ \A k \in DOMAIN batch :
          LET raising == RaisingIds(batch[k].records)
          IN /\ batch[k].failed_record_ids = raising
             /\ batch[k].records_failed = Len(raising)
             /\ batch[k].records_processed = Len(batch[k].records) - Len(raising)
             /\ batch[k].status \in {"failed", "raised"} => faults > 0
    /\ (pc = "returned" /\ faults = 0 /\ result.total_records > 0) =>
          /\ ~result.error
          /\ \A k \in DOMAIN batch : batch[k].pc = "collected"

\* A batch completed whose first record raised and whose second was processed.
C12_Witness ==
    \E k \in DOMAIN batch :
        /\ batch[k].status = "completed"
        /\ Len(batch[k].records) = 2
        /\ batch[k].failed_record_ids = <<batch[k].records[1].id>>
        /\ batch[k].records_processed = 1

\* C13: the step in which a fetch or commit failure marks a batch failed
\* leaves the live table as it is (nothing of that batch persists, what other
\* batches committed stays), drops the batch's pending UPDATEs, changes no
\* other batch and leaves the run in its batch loop; the loop is left for the
\* status derivation only when every batch was added to the result.
C13_BatchFailureIsIsolated ==
    [][ pc = "batches" =>
          /\ \A k \in DOMAIN batch :
                (batch[k].status # "failed" /\ batch'[k].status = "failed")
                => ( /\ table' = table
                     /\ batch'[k].updates = <<>>
                     /\ \A j \in DOMAIN batch \ {k} : batch'[j] = batch[j]
                     /\ pc' = "batches"
                     /\ result' = result )
          /\ pc' = "log" => \A k \in DOMAIN batch : batch[k].pc = "collected" ]_vars

\* The commit of a batch with processed records failed, the run went on and a
\* later batch committed its change to the live table.
C13_Witness ==
    /\ pc = "log"
    /\ ~dry_run
    /\ table # preTable
    /\ \E k, j \in DOMAIN batch :
          /\ k < j
          /\ batch[k].status = "failed"
          /\ batch[k].records_processed > 0
          /\ batch[j].status = "completed"
          /\ batch[j].records_processed > 0

\* The ids of the records of batch k.
BatchIds(k) == { batch[k].records[i].id : i \in 1..Len(batch[k].records) }

\* C14: the commit of a batch of a non-dry run carries only UPDATEs of
\* target_columns and changes, in the live table, only target_columns of rows
\* the batch fetched: the table keeps its rows and each row its columns, and
\* no other column and no other row changes.
C14_OnlyTargetColumnsWritten ==
    [][ (pc = "batches" /\ ~dry_run) =>
          \A k \in DOMAIN batch :
             (batch[k].pc = "processing" /\ batch'[k].pc = "done")
             => ( /\ \A i \in 1..Len(batch[k].updates) :
                        /\ DOMAIN batch[k].updates[i].values
                              \subseteq migration_func.target_columns
                        /\ batch[k].updates[i].record_id \in BatchIds(k)
                  /\ DOMAIN table' = DOMAIN table
                  /\ \A i \in DOMAIN table :
                        /\ DOMAIN table'[i] = DOMAIN table[i]
                        /\ \A c \in DOMAIN table[i] :
                              table'[i][c] # table[i][c]
                                 => ( /\ c \in migration_func.target_columns
                                      /\ table[i].id \in BatchIds(k) ) ) ]_vars

\* The transform that changes val and flag and adds a key, with target_columns
\* {val}, was committed for one row of two.
C14_Witness ==
    /\ pc = "batches"
    /\ ~dry_run
    /\ migration_func.function = "mark_val"
    /\ Len(table) = 2
    /\ table[1].val = 1
    /\ table[1].flag = 0
    /\ table[2] = preTable[2]
    /\ rb_id = 0

\* The changes a list holds.
Range(seq) == { seq[i] : i \in DOMAIN seq }

\* The changes of the input the loop of apply_schema_changes has been through.
Attempted == { i \in DOMAIN changes : i < ap_i }

\* C15: no exception escapes process_scraped_data, execute_migration or
\* apply_schema_changes: neither apply_schema_changes nor process_scraped_data
\* ever ends by raising, whichever collaborator failed (execute_migration's
\* part is C1: every call returns a result).
C15_NoExceptionEscapes ==
    /\ ap_pc # "raised"
    /\ pr_pc # "raised"

\* C16: apply_schema_changes executes no statement for a remove change and
\* never puts it in applied or failed; once the loop has been through it, and
\* so on return, it is in skipped - for every change list and dialect.
C16_RemoveAlwaysSkipped ==
    \A i \in DOMAIN changes :
        changes[i].operation = "remove" =>
            /\ \A s \in DOMAIN ddl_log : ddl_log[s].change # i
            /\ changes[i] \notin Range(results.applied) \cup Range(results.failed)
            /\ i \in Attempted => changes[i] \in Range(results.skipped)

\* apply_schema_changes returned after it applied one change and met a remove.
C16_Witness ==
    /\ ap_pc = "returned"
    /\ dialect = "postgresql"
    /\ Len(changes) = 2
    /\ changes[1].operation = "remove"
    /\ results.skipped = <<changes[1]>>
    /\ results.applied = <<changes[2]>>

\* Did the table have the column of change i when the call started?  (The
\* changes of a list are on different columns.)
InitiallyPresent(i) ==
    /\ changes[i].column_name \in VisibleColumns
    /\ ~\E s \in DOMAIN ddl_log :
          /\ ddl_log[s].change = i
          /\ ddl_log[s].ok
          /\ ddl_log[s].statement = "ADD COLUMN"

\* The list change i lands in when it is the only change of the call and the
\* database does not fail.
AloneOutcome(i) ==
    LET branch == Dispatch(changes[i].operation)
    IN  IF branch = "skip" THEN "skipped"
        ELSE IF ~IssuesDDL(branch, dialect) THEN "applied"
        ELSE IF branch = "add_column" /\ InitiallyPresent(i) THEN "failed"
        ELSE IF branch = "modify_column" /\ ~InitiallyPresent(i) THEN "failed"
        ELSE "applied"

\* The lists of the results dictionary change i is in.
Outcomes(i) ==
    { l \in {"applied", "failed", "skipped"} : changes[i] \in Range(results[l]) }

\* C17: every change the loop of apply_schema_changes has been through is in
\* exactly one of applied, failed, skipped, and unless the database failed on
\* its own statement it is in the list it would be in alone, whatever failed
\* before it; on return the loop has been through every change of the input.
C17_ChangesAreIndependent ==
    /\ \A i \in Attempted :
          /\ Cardinality(Outcomes(i)) = 1
          /\ i \notin ddl_faulted => Outcomes(i) = {AloneOutcome(i)}
    /\ ap_pc = "returned" => Attempted = DOMAIN changes

\* C18: on SQLite a modify change the loop has been through is in skipped and
\* not in applied or failed, no statement was executed for it and no
\* SchemaChange row is written or pending for it.
C18_SqliteModifyIsSkipped ==
    dialect = "sqlite" =>
        \A i \in Attempted :
            changes[i].operation = "modify" =>
                /\ Outcomes(i) = {"skipped"}
                /\ \A s \in DOMAIN ddl_log : ddl_log[s].change # i
                /\ changes[i] \notin db_archive \cup tx_archive

\* C19: when apply_schema_changes returns, every change in applied has its
\* SchemaChange row committed and _record_schema_changes met no exception;
\* when the call fails, no statement's effect and no SchemaChange row persists.
C19_AppliedIsArchivedAtomically ==
    /\ ap_pc = "returned" =>
          /\ Range(results.applied) \subseteq db_archive
          /\ ~archive_raised
    /\ ap_pc = "raised" =>
          /\ db_archive = {}
          /\ db_modified = {}
          /\ \A s \in DOMAIN ddl_log :
                (ddl_log[s].ok /\ ddl_log[s].statement = "ADD COLUMN")
                   => changes[ddl_log[s].change].column_name \notin db_columns

\* C20: when process_scraped_data returns after apply_schema_changes reported
\* a failed change, continue_scraping is False, whatever handle_schema_changes
\* answered and whatever pause_on_changes is.
C20_FailedMigrationHalts ==
    ( /\ pr_pc = "returned"
      /\ pr_results.has_migration_results
      /\ results.failed # <<>> )
    => ~pr_results.continue_scraping

\* process_scraped_data returned after a migration that applied one change and
\* failed on another, the feedback system having answered to continue.
C20_Witness ==
    /\ pr_pc = "returned"
    /\ pr_results.has_migration_results
    /\ HandleSchemaChanges(changes, pause_on_changes)
    /\ results.failed # <<>>
    /\ results.applied # <<>>
    /\ pr_results.migration_applied
    /\ ~pr_results.continue_scraping

\* Is p an initial part of s?
IsPrefix(p, s) == Len(p) <= Len(s) /\ \A i \in DOMAIN p : p[i] = s[i]

\* C21: process_scraped_data calls the detector, then the feedback system,
\* then the migration manager, each at most once and in this order; the
\* feedback system only when changes were detected, the migration manager only
\* with auto_migrate set and pause_on_changes not set, so that with
\* pause_on_changes no statement is ever executed; without changes it returns
\* changes_detected = 0, migration_applied = False, continue_scraping = True.
C21_ProcessOrderAndGates ==
    entry = "process" =>
        /\ IsPrefix(pr_calls, <<"detect", "feedback", "migrate">>)
        /\ ap_pc # "idle" => Len(pr_calls) = 3
        /\ Len(pr_calls) >= 2 => changes # <<>>
        /\ Len(pr_calls) = 3 => (auto_migrate /\ ~pause_on_changes)
        /\ pause_on_changes => ddl_log = <<>>
        /\ (pr_pc = "returned" /\ changes = <<>>) =>
              /\ pr_calls = <<"detect">>
              /\ pr_results.changes_detected = 0
              /\ ~pr_results.migration_applied
              /\ pr_results.continue_scraping

\* process_scraped_data went through all three components and a statement
\* was executed.
C21_Witness ==
    /\ entry = "process"
    /\ pr_pc = "returned"
    /\ pr_calls = <<"detect", "feedback", "migrate">>
    /\ ddl_log # <<>>
    /\ pr_results.migration_applied

\* C22: handle_schema_changes returns True for an empty change list; for a
\* non-empty list it returns False when pause_on_changes is true and True
\* when it is false, whatever the callback is or does.
C22_ReturnFollowsPausePolicy ==
    fb_pc = "returned" =>
        /\ fb_changes = <<>> => fb_return
        /\ (fb_changes # <<>> /\ fb_pause) => ~fb_return
        /\ (fb_changes # <<>> /\ ~fb_pause) => fb_return

C22_Witness ==
    /\ fb_pc = "returned"
    /\ fb_changes # <<>>
    /\ fb_pause
    /\ notification_callback = "raises"
    /\ ~fb_return

\* C23: for a non-empty change list a configured callback is invoked exactly
\* once, before the return value is decided; a callback that raises does not
\* make handle_schema_changes raise and does not change the value returned;
\* for an empty list the callback is not invoked.
C23_ObserverCalledOnceAndContained ==
    /\ fb_pc # "raised"
    /\ fb_changes = <<>> => fb_notified = 0
    /\ fb_pc = "start" => fb_notified = 0
    /\ (fb_pc \in {"notified", "returned"} /\ fb_changes # <<>>) =>
           fb_notified = IF notification_callback = "none" THEN 0 ELSE 1
    /\ (fb_pc = "returned" /\ fb_changes # <<>>) => fb_return = ~fb_pause

C23_Witness ==
    /\ fb_pc = "returned"
    /\ fb_changes # <<>>
    /\ notification_callback = "raises"
    /\ fb_notified = 1
    /\ ~fb_pause
    /\ fb_return

\* The storage type a reflected or finalized SQL type stands for in the
\* upgrade table.
StorageKind(sql_type) ==
    CASE sql_type = "INTEGER"   -> "integer"
      [] sql_type = "FLOAT"     -> "float"
      [] sql_type = "TEXT"      -> "text"
      [] sql_type = "DATE"      -> "date"
      [] sql_type = "TIMESTAMP" -> "timestamp"
      [] sql_type = "BOOLEAN"   -> "boolean"
      [] OTHER                  -> "varchar"

\* The upgrade table: the required storage types that are an upgrade over a
\* live one.
UpgradeTable(live_kind) ==
    CASE live_kind = "integer" -> {"float", "text"}
      [] live_kind = "varchar" -> {"text"}
      [] live_kind = "float"   -> {"text"}
      [] live_kind = "date"    -> {"timestamp", "text"}
      [] live_kind = "boolean" -> {"text"}
      [] OTHER                 -> {}

\* The columns that are keys of a sampled record.
RequiredColumns(data) == Range(RequiredOrder(<<>>, Sampled(data)))

\* The first detect call of the detector has returned a list; the table is as
\* that call saw it.
FirstDetectReturned ==
    /\ scraped_data # <<>>
    /\ Len(detected) = 1
    /\ ~detected[1].raised

Emits(out, op, c) ==
    \E i \in DOMAIN out.changes : /\ out.changes[i].operation = op
                                  /\ out.changes[i].column_name = c

\* C24: for a required column that is in the live table, detect emits a
\* modify change exactly when the pair (live type, required type) is in the
\* upgrade table integer->{float,text}, varchar->{text}, float->{text},
\* date->{timestamp,text}, boolean->{text}.
C24_ModifyFollowsUpgradeTable ==
    FirstDetectReturned =>
        \A c \in RequiredColumns(scraped_data) :
            (live.exists /\ live.columns[c] # "absent") =>
                ( Emits(detected[1], "modify", c)
                  <=> StorageKind(AnalyzeDataStructure(scraped_data)[c].sql_type)
                        \in UpgradeTable(StorageKind(live.columns[c])) )

\* C25: detect emits exactly one add change, carrying the inferred
\* descriptor, for each required column that is not in the live table; when
\* the table cannot be inspected every required column is an add and detect
\* does not raise.
C25_AbsentColumnsAreAdded ==
    (scraped_data # <<>> /\ Len(detected) = 1) =>
        LET out      == detected[1]
            required == AnalyzeDataStructure(scraped_data)
        IN /\ ~live.exists => ~out.raised
           /\ \A c \in RequiredColumns(scraped_data) :
                (~live.exists \/ live.columns[c] = "absent") =>
                    /\ ~out.raised
                    /\ Cardinality({ i \in DOMAIN out.changes :
                                       /\ out.changes[i].operation = "add"
                                       /\ out.changes[i].column_name = c }) = 1
                    /\ \E i \in DOMAIN out.changes :
                          out.changes[i] = AddChange(c, required[c])

\* C26: once apply_schema_changes has applied an add change for a column, a
\* later detect on the same detector with the same table and records does
\* not report that column as add.
C26_AppliedAddIsNotReportedAgain ==
    \A i \in DOMAIN detected : \A j \in DOMAIN detected :
        (i < j /\ detected[i].call = "apply" /\ detected[j].call = "detect") =>
            \A k \in DOMAIN detected[i].changes :
                ~Emits(detected[j], "add", detected[i].changes[k].column_name)

Last(seq) == seq[Len(seq)]

C30_StringSampleForcesString ==
    ( /\ live = [exists |-> TRUE,
                 columns |-> [name |-> "VARCHAR(100)", pts |-> "absent"]]
      /\ scraped_data = << [name |-> PyStr("text", 1), pts |-> PyInt],
                           [name |-> PyStr("text", 1), pts |-> ShortText] >>
      /\ Len(detected) >= 1 ) =>
        /\ ~detected[1].raised
        /\ Len(detected[1].changes) = 1
        /\ detected[1].changes[1].operation = "add"
        /\ detected[1].changes[1].column_name = "pts"
        /\ detected[1].changes[1].new_definition.type = "string"
        /\ ~detected[1].changes[1].new_definition.nullable

C30_Witness ==
    /\ live = [exists |-> TRUE,
               columns |-> [name |-> "VARCHAR(100)", pts |-> "absent"]]
    /\ scraped_data = << [name |-> PyStr("text", 1), pts |-> PyInt],
                         [name |-> PyStr("text", 1), pts |-> ShortText] >>
    /\ Len(detected) = 1
    /\ detected[1].changes =
          << AddChange("pts", [type |-> "string", nullable |-> FALSE,
                               max_length |-> 3, sql_type |-> "VARCHAR(100)"]) >>

InferredTypes == DOMAIN type_hierarchy

\* The samples in every order.
Reorderings(seq) ==
    { [i \in DOMAIN seq |-> seq[p[i]]] : p \in Permutations(DOMAIN seq) }

\* C28: the type inferred for a column does not depend on the order of its
\* sampled values: _get_most_permissive_type is commutative and
\* associative and returns the greater of its arguments in the order
\* boolean < integer < float < date < datetime < string, and every
\* permutation of the samples gives the descriptor type.
C28_WideningIsOrderIndependent ==
    inf_pc = "done" =>
        /\ \A t1 \in InferredTypes : \A t2 \in InferredTypes :
              /\ GetMostPermissiveType(t1, t2) = GetMostPermissiveType(t2, t1)
              /\ GetMostPermissiveType(t1, t2) \in {t1, t2}
              /\ type_hierarchy[GetMostPermissiveType(t1, t2)]
                    = Max(type_hierarchy[t1], type_hierarchy[t2])
              /\ \A t3 \in InferredTypes :
                    GetMostPermissiveType(GetMostPermissiveType(t1, t2), t3)
                      = GetMostPermissiveType(t1, GetMostPermissiveType(t2, t3))
        /\ \A p \in Reorderings(samples) : AnalyzeColumn(p).type = descriptor.type

C28_Witness ==
    /\ inf_pc = "done"
    /\ samples = <<ShortText, PyInt, IsoDate>>
    /\ descriptor.type = "string"

\* A null or empty value.
IsAbsentValue(value) == value = PyNone \/ value = EmptyString

C31_ZeroRecordsReturnsAtOnce ==
    [][(/\ pc = "count"
        /\ faults' = faults
        /\ GetRecordCount(table, filter_conditions) = 0) =>
           /\ pc' = "returned"
           /\ result'.status = "completed"
           /\ ~result'.error
           /\ result'.batch_results = <<>>
           /\ ~backupExists' /\ ~backupPending' /\ backup' = <<>>
           /\ table' = table
           /\ batches' = <<>> /\ batch' = <<>>]_vars

\* A run over a table none of whose rows the filter selects has returned.
C31_Witness ==
    /\ pc = "returned"
    /\ table # <<>>
    /\ GetRecordCount(table, filter_conditions) = 0
    /\ result.status = "completed"
    /\ ~result.error
    /\ result.batch_results = <<>>
    /\ ~backupExists
    /\ enable_rollback /\ ~dry_run

\* C32: when the count query, the backup creation or the commit before the
\* batches raises, the run ends failed with the error recorded, no batch was
\* generated or attempted and the live table is as it was.
C32_PreRunFailureFailsRun ==
    [][(pc \in {"count", "backup", "commit"} /\ faults' > faults) =>
           /\ pc' = "returned"
           /\ result'.status = "failed"
           /\ result'.error
           /\ result'.batch_results = <<>>
           /\ batches' = <<>> /\ batch' = <<>>
           /\ table' = table /\ table' = preTable]_vars

\* The backup creation of a run over a non-empty table raised.
C32_Witness ==
    /\ pc = "returned"
    /\ result.status = "failed"
    /\ result.error
    /\ result.total_records > 0
    /\ batches = <<>>
    /\ enable_rollback /\ ~dry_run
    /\ ~backupExists
    /\ ddl_transactional = "unknown"
    /\ rb_id = 0

\* C33: a string sample is typed date only when it has the shape YYYY-MM-DD,
\* datetime only when it is YYYY-MM-DD followed by a time, and string for
\* every other shape, MM/DD/YYYY included.
C33_OnlyIsoStringsAreDates ==
    (inf_pc = "done" /\ Len(samples) = 1 /\ samples[1].py = "str") =>
        descriptor.type =
            IF samples[1].shape = "YYYY-MM-DD" THEN "date"
            ELSE IF samples[1].shape = "YYYY-MM-DD HH:MM:SS" THEN "datetime"
            ELSE "string"

TerminalStatuses == {"completed", "partial", "failed"}

\* The status steps of a run: created pending, then running, then terminal.
StatusSteps ==
    {<<"none", "pending">>, <<"pending", "running">>}
        \cup ({"running"} \X TerminalStatuses)

\* C34: the status of a run changes only along pending -> running -> one of
\* completed, partial, failed; execute_migration never leaves a terminal
\* status; a logged run becomes rolled_back only from a terminal status and
\* only in a rollback_migration call.
C34_StatusFollowsStateMachine ==
    [][/\ result'.status # result.status =>
              <<result.status, result'.status>> \in StatusSteps
       /\ \A m \in migration_log' :
              (m.status = "rolled_back" /\ m \notin migration_log) =>
                  /\ pc = "returned"
                  /\ rb_id' = m.migration_id
                  /\ \E n \in migration_log : /\ n.migration_id = m.migration_id
                                              /\ n.status \in TerminalStatuses]_vars

\* C35: in the sequential loop (parallel false, or max_workers 1 or less)
\* the batches are processed one at a time in ascending offset order: a batch
\* is fetched only when every earlier batch has committed or rolled back and
\* was added to the result and no later batch was started, and batch_results
\* is in ascending batch order.
C35_SequentialIsOrdered ==
    [][(~Parallel /\ pc = "batches") =>
          /\ \A k \in DOMAIN batch :
                (batch[k].pc = "queued" /\ batch'[k].pc # "queued") =>
                    \A j \in DOMAIN batch :
                        /\ j < k => batch[j].pc = "collected"
                        /\ j > k => batch[j].pc = "queued"
          /\ \A i \in DOMAIN result'.batch_results :
                result'.batch_results[i].batch_id = batches[i].batch_num]_vars

C35_Witness ==
    /\ parallel
    /\ max_workers = 1
    /\ pc = "returned"
    /\ Len(batches) = 2
    /\ Len(result.batch_results) = 2
    /\ result.batch_results[2].status = "failed"

RECURSIVE SumOf(_, _)
SumOf(brs, field) ==
    IF brs = <<>> THEN 0 ELSE Head(brs)[field] + SumOf(Tail(brs), field)

\* C36: in the thread pool the counters of the run are written only by the
\* coordinating thread, with the result of a batch that has finished: a step
\* changes the result only by adding one finished batch, and
\* records_processed and records_failed are always the sums over
\* batch_results, whatever the order in which the batches finish.
C36_CountersMergedAfterCompletion ==
    [][(Parallel /\ result' # result) =>
          /\ (pc = "batches" /\ pc' = "batches") =>
                \E k \in DOMAIN batch :
                    /\ batch[k].pc = "done"
                    /\ batch'[k].pc = "collected"
                    /\ Len(result'.batch_results) = Len(result.batch_results) + 1
                    /\ Last(result'.batch_results).batch_id = batch[k].batch_id
          /\ result'.records_processed = SumOf(result'.batch_results, "records_processed")
          /\ result'.records_failed = SumOf(result'.batch_results, "records_failed")]_vars

\* Two batches of a pool run finished in the reverse of their submission order.
C36_Witness ==
    /\ Parallel
    /\ pc = "returned"
    /\ Len(result.batch_results) = 2
    /\ result.batch_results[1].batch_id = 1
    /\ result.records_failed = 1
    /\ result.records_processed = 1

\* C37: once the backup table of a run is created, execute_migration never
\* writes it: every step that is not a rollback leaves its rows as they are,
\* and they are the rows the live table had before the first mutation.
C37_BackupIsNeverWritten ==
    [][((backupExists \/ backupPending) /\ rb_id' = 0) =>
          /\ backup' = backup
          /\ backup = preTable]_vars

\* Every batch of a backed-up run committed its updates and the run returned.
C37_Witness ==
    /\ pc = "returned"
    /\ rb_id = 0
    /\ backupExists
    /\ result.batches_completed = 2
    /\ table # preTable
    /\ backup = preTable

\* C38: a returned run reports rollback_available only if its backup table
\* was created and committed; a run that ended before the backup step (zero
\* records, a failing count query, a failing backup creation) reports false.
C38_RollbackAvailableMeansBackup ==
    (pc = "returned" /\ rb_id = 0 /\ result.rollback_available) => backupExists

\* Every batch of the run was processed and added to the result.
BatchPhaseOver ==
    /\ pc \in {"log", "returned"}
    /\ batch # <<>>
    /\ \A k \in DOMAIN batch : batch[k].pc = "collected"

C40_OneAddOrModifyPerColumn ==
    (detected # <<>> /\ Last(detected).call = "detect") =>
        LET out == Last(detected).changes
        IN /\ \A i, j \in DOMAIN out :
                 i # j => out[i].column_name # out[j].column_name
           /\ \A i \in DOMAIN out :
                 /\ out[i].operation \in {"add", "modify"}
                 /\ out[i].operation = "add"
                      <=> (~live.exists \/ live.columns[out[i].column_name] = "absent")
           /\ scraped_data = <<>> =>
                 /\ out = <<>>
                 /\ ~Last(detected).raised
                 /\ ~info_cache.cached

=============================================================================
